---------------------------- MODULE Spec2Model ----------------------------
(***************************************************************************)
(* A model of DICe::Camera_System (src/src/core/DICe_CameraSystem.cpp):    *)
(* the calibration-file reader for its three dialects (Teuchos parameter   *)
(* list, VIC3D xml, legacy text), the calibration-file writer, the         *)
(* argument tests and stage order of camera_to_camera_projection, the      *)
(* rigid body motion rot_trans_3D with the coefficient members it keeps,   *)
(* and the state of the Camera_System object they act on.                  *)
(*                                                                         *)
(* Numbers.  scalar_t / double values are modelled by integers.  Text is   *)
(* modelled by what the parser sees: a token is a string, a path is a      *)
(* sequence of characters, a Teuchos parameter list is a record of its     *)
(* parameters and sublists.  Two written files are byte-identical exactly  *)
(* when their parameter lists are equal, because the writer emits the      *)
(* entries in one fixed order with fixed comments between them.            *)
(***************************************************************************)
EXTENDS Integers, Sequences, FiniteSets, TLC

(***************************************************************************)
(* Bounds of the model.                                                    *)
(***************************************************************************)
\* how many read_calibration_file calls one Camera_System receives
MaxLoads == 1
\* largest number of consecutively numbered camera groups in a generated file
MaxGroups == 11
\* largest number of points of a projection call
MaxPoints == 2
\* how many read_calibration_file calls a reloaded Camera_System receives
MaxReloads == 2
\* how many camera_to_camera_projection calls one Camera_System receives
MaxProjections == 1
\* how many rot_trans_3D calls one Camera_System receives in sequence
MaxTransforms == 1
\* how many threads call rot_trans_3D on one Camera_System
NumThreads == 2

(***************************************************************************)
(* The state: one program run.                                             *)
(***************************************************************************)
VARIABLES
  NDEBUG,   \* the build: TRUE when assert() is compiled out
  sys,      \* the Camera_System
  loads,    \* the number of read_calibration_file calls on sys so far
  load,     \* the last read_calibration_file call on sys: file, outcome, state before
  out1,     \* <<>> or the outcome of the last write_calibration_file of sys
  fresh,    \* <<>> or the outcome of reading out1 into a fresh Camera_System
  out2,     \* <<>> or the outcome of write_calibration_file of the fresh system
  proj,     \* the camera_to_camera_projection calls on sys and their outcomes, last first
  transforms, \* the rot_trans_3D calls on sys and their outcomes, last first
  threads   \* <<>> or, per thread inside rot_trans_3D, its call, position and arrays

(***************************************************************************)
(* Program constants.                                                      *)
(***************************************************************************)
\* Camera_System::Camera_System(): max_num_cameras_allowed_(10)
max_num_cameras_allowed_ == 10
\* const int_t num_values_with_eulers = 24
num_values_with_eulers == 24
\* const int_t num_values_with_R = 30
num_values_with_R == 30
\* the precision of a default-constructed std::stringstream
stream_precision == 6

(***************************************************************************)
(* Strings as the code searches them.                                      *)
(***************************************************************************)
\* std::string::npos, as the index no position of a string can have
npos == 0 - 1

\* const std::string xml("xml")
xml == <<"x", "m", "l">>

\* const std::string txt("txt")
txt == <<"t", "x", "t">>

\* does needle occur in hay at (0-based) position p
OccursAt(hay, needle, p) ==
  /\ p + Len(needle) <= Len(hay)
  /\ \A k \in 1..Len(needle) : hay[p + k] = needle[k]

\* std::string::find: the first position of needle in hay, or npos
find(hay, needle) ==
  LET hits == {p \in 0..Len(hay) : OccursAt(hay, needle, p)}
  IN  IF hits = {} THEN npos ELSE CHOOSE p \in hits : \A q \in hits : p <= q

(***************************************************************************)
(* Numbers as the code prints and parses them.                             *)
(***************************************************************************)
RECURSIVE Pow10(_)
Pow10(n) == IF n <= 0 THEN 1 ELSE 10 * Pow10(n - 1)

RECURSIVE NumDigits(_)
NumDigits(x) == IF x < 10 THEN 1 ELSE 1 + NumDigits(x \div 10)

Abs(x) == IF x < 0 THEN 0 - x ELSE x

\* round a non-negative x to a multiple of unit, ties to even
RoundToUnit(x, unit) ==
  LET q == x \div unit
      r == x % unit
      up == 2 * r > unit \/ (2 * r = unit /\ q % 2 = 1)
  IN  (IF up THEN q + 1 ELSE q) * unit

\* operator<<(std::ostream&, double) at the default precision followed by the
\* parse of the printed text: the value the printed digits denote
StreamReal(x) ==
  LET a == Abs(x)
      d == NumDigits(a)
      r == IF d <= stream_precision THEN a
           ELSE RoundToUnit(a, Pow10(d - stream_precision))
  IN  IF x < 0 THEN 0 - r ELSE r

\* std::atoi / strtod on a token: the number a numeric token denotes, 0 for a
\* token that does not start with a number
strtod(tok) ==
  CASE tok = "1" -> 1
    [] tok = "2" -> 2
    [] tok = "3" -> 3
    [] tok = "7" -> 7
    [] tok = "10" -> 10
    [] tok = "90" -> 90
    [] tok = "180" -> 180
    [] tok = "500" -> 500
    [] tok = "1000" -> 1000
    [] tok = "-1" -> 0 - 1
    [] tok = "-5" -> 0 - 5
    [] tok = "1234567" -> 1234567
    [] OTHER -> 0

(***************************************************************************)
(* Camera::Camera_Info and DICe::Camera (DICe_Camera.h, not part of the    *)
(* sources at hand).                                                       *)
(***************************************************************************)
\* Camera::MAX_CAM_INTRINSIC_PARAM: CX CY FX FY FS K1..K6 P1 P2 S1..S4 T1 T2
MAX_CAM_INTRINSIC_PARAM == 19

\* Camera::to_string(Cam_Intrinsic_Param), by 1-based position
IntrinsicName ==
  <<"CX", "CY", "FX", "FY", "FS", "K1", "K2", "K3", "K4", "K5", "K6",
    "P1", "P2", "S1", "S2", "S3", "S4", "T1", "T2">>

\* the order table with the image centre after the pin hole distances
param_order_int_FX_first == <<3, 4, 1, 2, 5, 6, 7, 8>>

\* std::vector<int_t> param_order_int = { CX, CY, FX, FY, FS, K1, K2, K3 }
\* (1-based positions in intrinsics_)
param_order_int == <<1, 2, 3, 4, 5, 6, 7, 8>>

Identity3 == <<<<1, 0, 0>>, <<0, 1, 0>>, <<0, 0, 1>>>>

\* a default constructed Camera::Camera_Info
Camera_Info ==
  [ id_ |-> "",
    image_height_ |-> 0,
    image_width_ |-> 0,
    pixel_depth_ |-> 0,
    lens_ |-> "",
    comments_ |-> "",
    lens_distortion_model_ |-> "NONE",
    intrinsics_ |-> [k \in 1..MAX_CAM_INTRINSIC_PARAM |-> 0],
    tx_ |-> 0, ty_ |-> 0, tz_ |-> 0,
    rotation_matrix_ |-> Identity3 ]

\* cos and sin of an angle given in degrees, exact on the quarter turns
CosDeg(a) ==
  LET m == a % 360
  IN  CASE m = 0 -> 1 [] m = 180 -> 0 - 1 [] OTHER -> 0

SinDeg(a) ==
  LET m == a % 360
  IN  CASE m = 90 -> 1 [] m = 270 -> 0 - 1 [] OTHER -> 0

\* Camera_Info::set_rotation_matrix(alpha, beta, gamma): R = Rz.Ry.Rx
set_rotation_matrix(info, alpha, beta, gamma) ==
  LET ca == CosDeg(alpha) sa == SinDeg(alpha)
      cb == CosDeg(beta)  sb == SinDeg(beta)
      cg == CosDeg(gamma) sg == SinDeg(gamma)
  IN  [info EXCEPT !.rotation_matrix_ =
        << <<cb * cg, sa * sb * cg - ca * sg, ca * sb * cg + sa * sg>>,
           <<cb * sg, sa * sb * sg + ca * cg, ca * sb * sg - sa * cg>>,
           <<0 - sb, sa * cb, ca * cb>> >>]

\* DICe::Camera(camera_info): the constructor rejects an invalid Camera_Info
CameraIsValid(info) == info.image_height_ > 0 /\ info.image_width_ > 0

(***************************************************************************)
(* The Camera_System object.                                               *)
(***************************************************************************)
Zero4x4 == [r \in 1..4 |-> [c \in 1..4 |-> 0]]

\* Camera_System::Camera_System(): the state after construction
Camera_System ==
  [ sys_type_ |-> "UNKNOWN_SYSTEM",
    cameras_ |-> <<>>,
    has_6_transform_ |-> FALSE,
    user_6x1_trans_ |-> <<0, 0, 0, 0, 0, 0>>,
    has_4x4_transform_ |-> FALSE,
    user_4x4_trans_ |-> Zero4x4,
    rot_trans_3D_x_ |-> <<>>,
    rot_trans_3D_y_ |-> <<>>,
    rot_trans_3D_z_ |-> <<>>,
    rot_trans_3D_dx_ |-> [i \in 1..6 |-> <<>>],
    rot_trans_3D_dy_ |-> [i \in 1..6 |-> <<>>],
    rot_trans_3D_dz_ |-> [i \in 1..6 |-> <<>>] ]

\* the names of System_Type_3D that a calibration file may carry
System_Type_3D == {"GENERIC_SYSTEM", "OPENCV", "VIC3D", "DICE"}

\* string_to_system_type_3d (DICe_Camera.h)
string_to_system_type_3d(str) ==
  IF str \in System_Type_3D \cup {"UNKNOWN_SYSTEM"} THEN str
  ELSE "NO_SUCH_SYSTEM_TYPE_3D"

\* Camera::string_to_lens_distortion_model (DICe_Camera.h)
string_to_lens_distortion_model(str) ==
  IF str \in {"NONE", "OPENCV_DIS", "VIC3D_DIS", "K1R1_K2R2_K3R3",
              "K1R2_K2R4_K3R6", "K1R3_K2R5_K3R7"}
  THEN str ELSE "NO_SUCH_LENS_DISTORTION_MODEL"

(***************************************************************************)
(* Teuchos::ParameterList as read_calibration_file queries it.  An entry   *)
(* that may be absent is <<>> when absent and <<value>> when present.      *)
(***************************************************************************)
\* a parameter list without any entry
NoParams ==
  [ DICe_XML_Calibration_File |-> FALSE,
    system_type_3D |-> <<>>,
    cameras |-> [name \in {} |-> <<>>],
    user_6_param_transform |-> <<>>,
    user_4x4_param_transform |-> <<>> ]

isParameter(entry) == entry # <<>>

get(entry) == entry[1]

\* the name "CAMERA <i>" of a camera sublist; nl tells whether the name ends
\* with a line feed
SublistName(i, nl) == [idx |-> i, nl |-> nl]

\* ParameterList::isSublist(name)
isSublist(list, name) == name \in DOMAIN list

\* what a throw or a return of read_calibration_file leaves behind
Thrown(self, msg) == [ok |-> FALSE, err |-> msg, sys |-> self]

Returned(self) == [ok |-> TRUE, err |-> "", sys |-> self]

\* what a failed assert() leaves behind: the process is aborted
AssertionFailed == "Assertion failed"

Aborted(self) == [ok |-> FALSE, err |-> AssertionFailed, sys |-> self]

\* std::stringstream camera_sublist_id; camera_sublist_id << "CAMERA " << i << std::endl
camera_sublist_id(i) == SublistName(i, TRUE)

\* std::stringstream camera_id_ss; camera_id_ss << "CAMERA " << i
CameraTitle(i) == "CAMERA " \o ToString(i)

\* lines 149-170: the Euler angles of a camera group
has_eulers(camParams) ==
  \/ isParameter(camParams.ALPHA)
  \/ isParameter(camParams.BETA)
  \/ isParameter(camParams.GAMMA)

EulerOr0(entry) == IF isParameter(entry) THEN get(entry) ELSE 0

\* lines 204-213: the rows ROW 0 .. ROW 2 of the rotation_3x3_matrix sublist,
\* from row j on; camRot maps the names of the rows present to their values.
\* The test of line 207 throws when the row IS a parameter of the sublist, and
\* ParameterList::get throws when it is not.
ReadRotationRows(info, camRot, j) ==
  IF j >= 3 THEN [ok |-> TRUE, err |-> "", info |-> info]
  ELSE IF j \in DOMAIN camRot
       THEN [ok |-> FALSE, info |-> info,
             err |-> "cal file missing row for camera 3x3 rotation matrix"]
       ELSE [ok |-> FALSE, info |-> info,
             err |-> "Teuchos: parameter not found"]

\* lines 198-214: does the camera have a 3x3 rotation matrix?
ReadRotation(info, camParams) ==
  IF isParameter(camParams.rotation_3x3_matrix)
  THEN IF has_eulers(camParams)
       THEN [ok |-> FALSE, info |-> info,
             err |-> "cannot specify euler angles and rotation matrix"]
       ELSE ReadRotationRows(info, get(camParams.rotation_3x3_matrix), 0)
  ELSE [ok |-> TRUE, err |-> "", info |-> info]

\* lines 128-135: fill the array with any intrinsic parameters
ReadIntrinsics(info, camParams) ==
  [info EXCEPT !.intrinsics_ =
     [k \in 1..MAX_CAM_INTRINSIC_PARAM |->
        IF k \in DOMAIN camParams.intrinsics THEN camParams.intrinsics[k]
        ELSE info.intrinsics_[k]]]

\* lines 117-197: the Camera_Info of camera group i, before its rotation matrix
ReadCameraFields(camParams, i) ==
  LET a == [Camera_Info EXCEPT
              !.lens_distortion_model_ =
                 string_to_lens_distortion_model(get(camParams.LENS_DISTORTION_MODEL)),
              !.image_height_ = get(camParams.IMAGE_HEIGHT_WIDTH)[1],
              !.image_width_ = get(camParams.IMAGE_HEIGHT_WIDTH)[2]]
      b == ReadIntrinsics(a, camParams)
      c == [b EXCEPT
              !.tx_ = IF isParameter(camParams.TX) THEN get(camParams.TX) ELSE @,
              !.ty_ = IF isParameter(camParams.TY) THEN get(camParams.TY) ELSE @,
              !.tz_ = IF isParameter(camParams.TZ) THEN get(camParams.TZ) ELSE @]
      d == IF has_eulers(camParams)
           THEN set_rotation_matrix(c, EulerOr0(camParams.ALPHA),
                                    EulerOr0(camParams.BETA), EulerOr0(camParams.GAMMA))
           ELSE c
  IN  [d EXCEPT
         !.id_ = IF isParameter(camParams.CAMERA_ID) THEN get(camParams.CAMERA_ID)
                 ELSE CameraTitle(i),
         !.pixel_depth_ = IF isParameter(camParams.PIXEL_DEPTH)
                          THEN get(camParams.PIXEL_DEPTH) ELSE @,
         !.lens_ = IF isParameter(camParams.LENS) THEN get(camParams.LENS) ELSE @,
         !.comments_ = IF isParameter(camParams.COMMENTS)
                       THEN get(camParams.COMMENTS) ELSE @]

\* lines 111-217: one camera sublist; the camera is appended only at the end
ReadCamera(self, camParams, i) ==
  IF ~isParameter(camParams.IMAGE_HEIGHT_WIDTH)
  THEN Thrown(self, "calibration file missing IMAGE_HEIGHT_WIDTH")
  ELSE IF ~isParameter(camParams.LENS_DISTORTION_MODEL)
  THEN Thrown(self, "calibration file missing LENS_DISTORITION_MODEL")
  ELSE LET r == ReadRotation(ReadCameraFields(camParams, i), camParams)
       IN  IF ~r.ok THEN Thrown(self, r.err)
           ELSE IF ~CameraIsValid(r.info) THEN Thrown(self, "invalid camera")
           ELSE Returned([self EXCEPT !.cameras_ = Append(@, r.info)])

\* lines 104-221: cycle through all the cameras to see if they are assigned,
\* from index i on
RECURSIVE ReadCameras(_, _, _)
ReadCameras(self, sys_params, i) ==
  IF i >= max_num_cameras_allowed_ THEN Returned(self)
  ELSE IF i = max_num_cameras_allowed_ - 1
  THEN Thrown(self, "too many cameras defined in the xml calibration file")
  ELSE IF isSublist(sys_params.cameras, camera_sublist_id(i))
  THEN LET r == ReadCamera(self, sys_params.cameras[camera_sublist_id(i)], i)
       IN  IF r.ok THEN ReadCameras(r.sys, sys_params, i + 1) ELSE r
  ELSE Returned(self)

\* lines 224-233: does the file have a 6 parameter transform?
Read6Transform(self, sys_params) ==
  IF isParameter(sys_params.user_6_param_transform)
  THEN [self EXCEPT !.has_6_transform_ = TRUE,
                    !.user_6x1_trans_ = get(sys_params.user_6_param_transform)]
  ELSE self

\* lines 240-248: the rows ROW 0 .. ROW 3 of the 4x4 transform, from row j on;
\* ParameterList::get throws on a row that is missing
RECURSIVE Read4x4Rows(_, _, _)
Read4x4Rows(self, camRow, j) ==
  IF j >= 4 THEN Returned(self)
  ELSE IF j \notin DOMAIN camRow THEN Thrown(self, "Teuchos: parameter not found")
  ELSE Read4x4Rows([self EXCEPT !.user_4x4_trans_[j + 1] = camRow[j]], camRow, j + 1)

\* lines 235-249: does the file have a 4x4 parameter transform?
Read4x4Transform(self, sys_params) ==
  IF isParameter(sys_params.user_4x4_param_transform)
  THEN Read4x4Rows([self EXCEPT !.has_4x4_transform_ = TRUE],
                   get(sys_params.user_4x4_param_transform), 0)
  ELSE Returned(self)

\* lines 97-266: the file is in the DICe XML cal file format
ReadDiceXmlBody(self, sys_params) ==
  IF ~isParameter(sys_params.system_type_3D)
  THEN Thrown(self, "calibration file missing system_type_3D")
  ELSE LET typed == [self EXCEPT !.sys_type_ =
                       string_to_system_type_3d(get(sys_params.system_type_3D))]
           cams == ReadCameras(typed, sys_params, 0)
       IN  IF ~cams.ok THEN cams
           ELSE Read4x4Transform(Read6Transform(cams.sys, sys_params), sys_params)

\* a reading of lines 90-96 that takes every file the Teuchos parser accepts
\* for a DICe calibration file
ReadDiceXmlUnmarked(self, sys_params) == ReadDiceXmlBody(self, sys_params)

\* lines 90-266: the file was read into parameters by the Teuchos parser
ReadDiceXml(self, sys_params) ==
  IF ~sys_params.DICe_XML_Calibration_File
  THEN Thrown(self, "DICe XML calibration file not valid")
  ELSE ReadDiceXmlBody(self, sys_params)

(***************************************************************************)
(* The VIC3D dialect.  A line is the sequence of its tokens; tokens[k] of  *)
(* the code is Tok(tokens, k).                                             *)
(***************************************************************************)
Tok(tokens, k) == tokens[k + 1]

\* lines 299-322: one CAMERA record; loc holds the locals camera_infos and
\* current_camera
ReadVic3dCamera(loc, tokens) ==
  IF loc.current_camera > 1 THEN [loc EXCEPT !.ok = FALSE]
  ELSE LET camera_index == strtod(Tok(tokens, 2))
           n == loc.current_camera + 1
           titled == [loc.camera_infos[n] EXCEPT !.id_ = CameraTitle(camera_index)]
       IN  IF camera_index >= 10
           THEN [loc EXCEPT !.ok = FALSE, !.camera_infos[n] = titled]
           ELSE IF Len(tokens) <= 18
           THEN [loc EXCEPT !.ok = FALSE, !.camera_infos[n] = titled]
           ELSE LET filled ==
                      [titled EXCEPT
                         !.intrinsics_ =
                            [k \in 1..MAX_CAM_INTRINSIC_PARAM |->
                               IF \E i \in 1..Len(param_order_int) : param_order_int[i] = k
                               THEN strtod(Tok(tokens,
                                      (CHOOSE i \in 1..Len(param_order_int) :
                                         param_order_int[i] = k) - 1 + 3))
                               ELSE @[k]],
                         !.lens_distortion_model_ = "K1R1_K2R2_K3R3"]
                IN  IF Tok(tokens, 11) # "ORIENTATION"
                    THEN [loc EXCEPT !.ok = FALSE, !.camera_infos[n] = filled]
                    ELSE [loc EXCEPT
                            !.camera_infos[n] =
                               [set_rotation_matrix(filled, strtod(Tok(tokens, 12)),
                                  strtod(Tok(tokens, 13)), strtod(Tok(tokens, 14)))
                                EXCEPT !.tx_ = strtod(Tok(tokens, 15)),
                                       !.ty_ = strtod(Tok(tokens, 16)),
                                       !.tz_ = strtod(Tok(tokens, 17))],
                            !.current_camera = @ + 1]

\* lines 288-324: read each line of the file, from line k on
RECURSIVE ReadVic3dLines(_, _, _)
ReadVic3dLines(loc, lines, k) ==
  IF k > Len(lines) \/ ~loc.ok THEN loc
  ELSE LET tokens == lines[k]
       IN  IF Len(tokens) = 0 THEN ReadVic3dLines(loc, lines, k + 1)
           ELSE IF Tok(tokens, 0) = "POLYGONMASK"
           THEN IF Tok(tokens, 1) # "WIDTH=" \/ Tok(tokens, 3) # "HEIGHT="
                THEN [loc EXCEPT !.ok = FALSE]
                ELSE ReadVic3dLines(
                       [loc EXCEPT !.xml_img_width = strtod(Tok(tokens, 2)),
                                   !.xml_img_height = strtod(Tok(tokens, 4))],
                       lines, k + 1)
           ELSE IF Tok(tokens, 0) # "CAMERA" THEN ReadVic3dLines(loc, lines, k + 1)
           ELSE ReadVic3dLines(ReadVic3dCamera(loc, tokens), lines, k + 1)

\* lines 326-331: push the camera_infos, from the i-th on; the Camera
\* constructor may reject one after earlier ones were pushed
RECURSIVE PushVic3dCameras(_, _, _)
PushVic3dCameras(self, infos, i) ==
  IF i > Len(infos) THEN Returned(self)
  ELSE IF ~CameraIsValid(infos[i]) THEN Thrown(self, "invalid camera")
  ELSE PushVic3dCameras([self EXCEPT !.cameras_ = Append(@, infos[i])], infos, i + 1)

\* lines 275-333: the calibration file is assumed to be in vic3D xml format
ReadVic3d(self, lines) ==
  LET typed == [self EXCEPT !.sys_type_ = "VIC3D"]
      loc == ReadVic3dLines(
               [ok |-> TRUE, camera_infos |-> <<Camera_Info, Camera_Info>>,
                current_camera |-> 0, xml_img_height |-> 0, xml_img_width |-> 0],
               lines, 1)
  IN  IF ~loc.ok THEN Thrown(typed, "")
      ELSE IF loc.xml_img_height <= 0 \/ loc.xml_img_width <= 0 THEN Thrown(typed, "")
      ELSE LET sized == [i \in 1..2 |->
                           [loc.camera_infos[i] EXCEPT
                              !.image_height_ = loc.xml_img_height,
                              !.image_width_ = loc.xml_img_width]]
               pushed == PushVic3dCameras(typed, sized, 1)
           IN  IF ~pushed.ok THEN pushed
               ELSE IF Len(pushed.sys.cameras_) # 2 THEN Thrown(pushed.sys, "")
               ELSE pushed

(***************************************************************************)
(* The legacy text dialect.                                                *)
(***************************************************************************)
\* lines 355-356 and 380-381: a line that carries no value
IsSkippedLine(tokens) == Len(tokens) = 0 \/ Tok(tokens, 0) = "#"

\* lines 353-361 with a TRANSFORM line skipped like a comment
RECURSIVE CountTxtValuesSkipsTransform(_, _, _)
CountTxtValuesSkipsTransform(lines, k, n) ==
  IF k > Len(lines) THEN [ok |-> TRUE, total_num_values |-> n]
  ELSE IF IsSkippedLine(lines[k]) \/ Tok(lines[k], 0) = "TRANSFORM"
  THEN CountTxtValuesSkipsTransform(lines, k + 1, n)
  ELSE CountTxtValuesSkipsTransform(lines, k + 1, n + 1)

\* lines 353-361: run through the file to determine the format, from line k
\* on; n is total_num_values so far
RECURSIVE CountTxtValues(_, _, _)
CountTxtValues(lines, k, n) ==
  IF k > Len(lines) THEN [ok |-> TRUE, total_num_values |-> n]
  ELSE IF IsSkippedLine(lines[k]) THEN CountTxtValues(lines, k + 1, n)
  ELSE IF Tok(lines[k], 0) = "TRANSFORM" THEN [ok |-> FALSE, total_num_values |-> n]
  ELSE CountTxtValues(lines, k + 1, n + 1)

\* lines 382-384: assert(tokens[1] == "#"), only one entry per line plus
\* comments; checked on every value line of the second pass
TxtAssertHolds(lines) ==
  \A k \in 1..Len(lines) :
    IsSkippedLine(lines[k]) \/ Len(lines[k]) <= 1 \/ Tok(lines[k], 1) = "#"

\* the value lines in file order: after the second pass, current_line is the
\* 0-based position in this sequence
TxtValueLines(lines) == SelectSeq(lines, LAMBDA tokens : ~IsSkippedLine(tokens))

\* strtod(tokens[0]) of the value line at current_line
TxtValue(lines, current_line) ==
  strtod(Tok(TxtValueLines(lines)[current_line + 1], 0))

\* lines 385-388 with camera 1 reading the value lines of camera 0
TxtIntrinsicsOfCamera0(info, lines, cam) ==
  [info EXCEPT !.intrinsics_ =
     [k \in 1..MAX_CAM_INTRINSIC_PARAM |->
        IF \E i \in 1..Len(param_order_int) : param_order_int[i] = k
        THEN TxtValue(lines,
               (CHOOSE i \in 1..Len(param_order_int) : param_order_int[i] = k) - 1)
        ELSE @[k]]]

\* lines 385-388: the intrinsics of camera cam (0 or 1)
TxtIntrinsics(info, lines, cam) ==
  [info EXCEPT !.intrinsics_ =
     [k \in 1..MAX_CAM_INTRINSIC_PARAM |->
        IF \E i \in 1..Len(param_order_int) : param_order_int[i] = k
        THEN TxtValue(lines, 8 * cam +
               (CHOOSE i \in 1..Len(param_order_int) : param_order_int[i] = k) - 1)
        ELSE @[k]]]

\* lines 374 and 389-392: std::vector<scalar_t> ext_values(total_num_values - 18)
TxtExtValues(lines, total_num_values) ==
  [e \in 1..(total_num_values - 18) |-> TxtValue(lines, 16 + e - 1)]

\* lines 403-422 without the branch on has_eulers: always the Euler angles
TxtExtrinsicsEulersOnly(info, ext_values, with_eulers) ==
  LET n == Len(ext_values)
  IN  set_rotation_matrix([info EXCEPT !.tx_ = ext_values[n - 2],
                                       !.ty_ = ext_values[n - 1],
                                       !.tz_ = ext_values[n]],
                          ext_values[1], ext_values[2], ext_values[3])

\* lines 400-422 with the translations taken from the front of ext_values
TxtExtrinsicsTranslationsFirst(info, ext_values, with_eulers) ==
  LET n == Len(ext_values)
      moved == [info EXCEPT !.tx_ = ext_values[1],
                            !.ty_ = ext_values[2],
                            !.tz_ = ext_values[3]]
  IN  IF with_eulers
      THEN set_rotation_matrix(moved, ext_values[n - 2], ext_values[n - 1], ext_values[n])
      ELSE [moved EXCEPT !.rotation_matrix_ =
              << <<ext_values[4], ext_values[5], ext_values[6]>>,
                 <<ext_values[7], ext_values[8], ext_values[9]>>,
                 <<ext_values[10], ext_values[11], ext_values[12]>> >>]

\* lines 400-422: the extrinsics of camera 1
TxtExtrinsics(info, ext_values, with_eulers) ==
  LET n == Len(ext_values)
      moved == [info EXCEPT !.tx_ = ext_values[n - 2],
                            !.ty_ = ext_values[n - 1],
                            !.tz_ = ext_values[n]]
  IN  IF with_eulers
      THEN set_rotation_matrix(moved, ext_values[1], ext_values[2], ext_values[3])
      ELSE [moved EXCEPT !.rotation_matrix_ =
              << <<ext_values[1], ext_values[2], ext_values[3]>>,
                 <<ext_values[4], ext_values[5], ext_values[6]>>,
                 <<ext_values[7], ext_values[8], ext_values[9]>> >>]

\* lines 336-437: the calibration file is in the generic txt format
ReadTxt(self, lines) ==
  LET typed == [self EXCEPT !.sys_type_ = "GENERIC_SYSTEM"]
      counted == CountTxtValues(lines, 1, 0)
      total_num_values == counted.total_num_values
  IN  IF ~counted.ok
      THEN Thrown(typed, "custom transforms are no longer supported in the txt calibration file format")
      ELSE IF total_num_values # num_values_with_eulers /\ total_num_values # num_values_with_R
      THEN Thrown(typed, "invalid number of paramers in txt calibration file")
      ELSE IF ~NDEBUG /\ ~TxtAssertHolds(lines) THEN Aborted(typed)
      ELSE LET with_eulers == total_num_values = num_values_with_eulers
               txt_img_height == TxtValue(lines, total_num_values - 2)
               txt_img_width == TxtValue(lines, total_num_values - 1)
               camera_info_0 ==
                 [TxtIntrinsics([Camera_Info EXCEPT !.id_ = "CAMERA 0"], lines, 0)
                  EXCEPT !.lens_distortion_model_ = "K1R1_K2R2_K3R3",
                         !.image_height_ = txt_img_height,
                         !.image_width_ = txt_img_width]
               camera_info_1 ==
                 [TxtExtrinsics(
                    TxtIntrinsics([Camera_Info EXCEPT !.id_ = "CAMERA 1"], lines, 1),
                    TxtExtValues(lines, total_num_values), with_eulers)
                  EXCEPT !.lens_distortion_model_ = "K1R1_K2R2_K3R3",
                         !.image_height_ = txt_img_height,
                         !.image_width_ = txt_img_width]
           IN  IF txt_img_height < 0 \/ txt_img_width < 0 THEN Thrown(typed, "")
               ELSE IF ~CameraIsValid(camera_info_0) THEN Thrown(typed, "invalid camera")
               ELSE LET one == [typed EXCEPT !.cameras_ = Append(@, camera_info_0)]
                    IN  IF ~CameraIsValid(camera_info_1) THEN Thrown(one, "invalid camera")
                        ELSE Returned([one EXCEPT !.cameras_ = Append(@, camera_info_1)])

(***************************************************************************)
(* read_calibration_file.  A file is [cal_file, exists, teuchos,           *)
(* sys_params, lines]: its path, whether it can be opened, whether         *)
(* Teuchos::updateParametersFromXmlFile accepts it and the parameter list  *)
(* it then yields, and its lines of tokens.                                *)
(***************************************************************************)
\* lines 267-442: must be an xml file from VIC3d or text file
ReadTextDialects(self, file) ==
  IF ~file.exists
  THEN Thrown(self, "the calibration file does not exist or is corrupt")
  ELSE IF find(file.cal_file, xml) # npos THEN ReadVic3d(self, file.lines)
  ELSE IF find(file.cal_file, txt) # npos THEN ReadTxt(self, file.lines)
  ELSE Thrown(self, "unrecognized calibration parameters file format")

\* lines 76-88: the Teuchos parser did not throw
valid_dice_xml(file) == file.exists /\ file.teuchos

\* Camera_System::read_calibration_file(cal_file)
read_calibration_file(self, file) ==
  IF valid_dice_xml(file) THEN ReadDiceXml(self, file.sys_params)
  ELSE ReadTextDialects(self, file)

(***************************************************************************)
(* write_calibration_file.                                                 *)
(***************************************************************************)
\* an entry the writer emits whatever its value
EmitAlways(cond, value) == <<value>>

\* an entry the writer emits only when cond holds
EmitIf(cond, value) == IF cond THEN <<value>> ELSE <<>>

\* lines 606-620: the rotation_3x3_matrix sublist, ROW 0 .. ROW 2
WriteRotation(info) ==
  [i \in 0..2 |-> [j \in 1..3 |-> StreamReal(info.rotation_matrix_[i + 1][j])]]

\* lines 577-584: the non-zero intrinsics
WriteIntrinsics(info) ==
  [k \in {j \in 1..MAX_CAM_INTRINSIC_PARAM : info.intrinsics_[j] # 0} |->
     StreamReal(info.intrinsics_[k])]

\* lines 566-657: the sublist of one camera
WriteCamera(info) ==
  [ CAMERA_ID |-> <<info.id_>>,
    intrinsics |-> WriteIntrinsics(info),
    LENS_DISTORTION_MODEL |-> <<info.lens_distortion_model_>>,
    TX |-> EmitIf(info.tx_ # 0, StreamReal(info.tx_)),
    TY |-> EmitIf(info.ty_ # 0, StreamReal(info.ty_)),
    TZ |-> EmitIf(info.tz_ # 0, StreamReal(info.tz_)),
    ALPHA |-> <<>>, BETA |-> <<>>, GAMMA |-> <<>>,
    rotation_3x3_matrix |-> <<WriteRotation(info)>>,
    IMAGE_HEIGHT_WIDTH |->
      EmitIf(info.image_width_ # 0 /\ info.image_height_ # 0,
             <<info.image_height_, info.image_width_>>),
    PIXEL_DEPTH |-> EmitIf(info.pixel_depth_ # 0, info.pixel_depth_),
    LENS |-> EmitIf(info.lens_ # "", info.lens_),
    COMMENTS |-> EmitIf(info.comments_ # "", info.comments_) ]

\* line 567: param_title << "CAMERA " << camera_index
param_title(camera_index) == SublistName(camera_index, FALSE)

\* lines 505-717: the parameter list the written file holds
WriteParams(self) ==
  [ DICe_XML_Calibration_File |-> TRUE,
    system_type_3D |-> <<self.sys_type_>>,
    cameras |->
      [name \in {param_title(i) : i \in 0..(Len(self.cameras_) - 1)} |->
         WriteCamera(self.cameras_[name.idx + 1])],
    user_6_param_transform |->
      EmitIf(self.has_6_transform_,
             [j \in 1..6 |-> StreamReal(self.user_6x1_trans_[j])]),
    user_4x4_param_transform |->
      EmitIf(self.has_4x4_transform_,
             [i \in 0..3 |-> [j \in 1..4 |-> StreamReal(self.user_4x4_trans_[i + 1][j])]]) ]

\* the lines of tokens of a Teuchos xml file: none starts with POLYGONMASK,
\* CAMERA or a number
ParameterListLines ==
  << <<"PARAMETERLIST">>, <<"PARAMETER", "NAME=">>, <<"/PARAMETERLIST">> >>

\* lines 505-717: the file at cal_file after initialize_xml_file .. finalize_xml_file
WrittenFile(self, cal_file) ==
  [cal_file |-> cal_file, exists |-> TRUE, teuchos |-> TRUE,
   sys_params |-> WriteParams(self), lines |-> ParameterListLines]

\* line 505 alone: initialize_xml_file(cal_file) clears the file
ClearedFile(cal_file) ==
  [cal_file |-> cal_file, exists |-> TRUE, teuchos |-> FALSE,
   sys_params |-> NoParams, lines |-> <<>>]

\* write_calibration_file with the test of line 497 moved behind the clearing
\* of the file
write_calibration_file_clears_first(self, cal_file) ==
  IF self.sys_type_ = "UNKNOWN_SYSTEM"
  THEN [ok |-> FALSE, err |-> "write_calibration_file() called for unknown system type",
        file |-> <<ClearedFile(cal_file)>>, sys |-> self]
  ELSE [ok |-> TRUE, err |-> "", file |-> <<WrittenFile(self, cal_file)>>, sys |-> self]

\* write_calibration_file that also resets the user transform flags
write_calibration_file_resets_flags(self, cal_file) ==
  IF self.sys_type_ = "UNKNOWN_SYSTEM"
  THEN [ok |-> FALSE, err |-> "write_calibration_file() called for unknown system type",
        file |-> <<>>, sys |-> self]
  ELSE [ok |-> TRUE, err |-> "", file |-> <<WrittenFile(self, cal_file)>>,
        sys |-> [self EXCEPT !.has_6_transform_ = FALSE, !.has_4x4_transform_ = FALSE]]

\* Camera_System::write_calibration_file(cal_file): file is <<>> when the
\* file at cal_file was not touched, else the file left there; sys is the
\* Camera_System after the call (lines 492-718 assign no member)
write_calibration_file(self, cal_file) ==
  IF self.sys_type_ = "UNKNOWN_SYSTEM"
  THEN [ok |-> FALSE, err |-> "write_calibration_file() called for unknown system type",
        file |-> <<>>, sys |-> self]
  ELSE [ok |-> TRUE, err |-> "", file |-> <<WrittenFile(self, cal_file)>>, sys |-> self]

(***************************************************************************)
(* rot_trans_3D.  Angles are whole quarter turns, so that cos and sin are  *)
(* exact: the angle a stands for a * pi / 2.  The members rot_trans_3D_x_, *)
(* _y_, _z_ hold the rows of [R | T]; rot_trans_3D_dx_, _dy_, _dz_ hold,   *)
(* per parameter, the partials of those rows.                              *)
(***************************************************************************)
cos(a) ==
  LET m == a % 4
  IN  CASE m = 0 -> 1 [] m = 2 -> 0 - 1 [] OTHER -> 0

sin(a) ==
  LET m == a % 4
  IN  CASE m = 1 -> 1 [] m = 3 -> 0 - 1 [] OTHER -> 0

\* the positions of the rigid body parameters (0-based in the source)
ANGLE_X == 1
ANGLE_Y == 2
ANGLE_Z == 3
TRANSLATION_X == 4
TRANSLATION_Y == 5
TRANSLATION_Z == 6

Zero4 == <<0, 0, 0, 0>>

\* lines 832-854: the rows of [R | T] for the six rigid body parameters
RotTransCoefficients(rigid_body_params) ==
  LET cx == cos(rigid_body_params[ANGLE_X])
      cy == cos(rigid_body_params[ANGLE_Y])
      cz == cos(rigid_body_params[ANGLE_Z])
      sx == sin(rigid_body_params[ANGLE_X])
      sy == sin(rigid_body_params[ANGLE_Y])
      sz == sin(rigid_body_params[ANGLE_Z])
      tx == rigid_body_params[TRANSLATION_X]
      ty == rigid_body_params[TRANSLATION_Y]
      tz == rigid_body_params[TRANSLATION_Z]
  IN  [x |-> <<cy * cz, sx * sy * cz - cx * sz, cx * sy * cz + sx * sz, tx>>,
       y |-> <<cy * sz, sx * sy * sz + cx * cz, cx * sy * sz - sx * cz, ty>>,
       z |-> <<0 - sy, sx * cy, cx * cy, tz>>]

\* lines 856-895: the partials of the rows with respect to the three angles;
\* the rows of the translations are left as they are
RotTransPartials(self, rigid_body_params) ==
  LET cx == cos(rigid_body_params[ANGLE_X])
      cy == cos(rigid_body_params[ANGLE_Y])
      cz == cos(rigid_body_params[ANGLE_Z])
      sx == sin(rigid_body_params[ANGLE_X])
      sy == sin(rigid_body_params[ANGLE_Y])
      sz == sin(rigid_body_params[ANGLE_Z])
  IN  [dx |-> [self.rot_trans_3D_dx_ EXCEPT
                 ![ANGLE_X] = <<0, cx * sy * cz + sx * sz,
                                (0 - sx) * sy * cz + cx * sz, 0>>,
                 ![ANGLE_Y] = <<(0 - sy) * cz, sx * cy * cz, cx * cy * cz, 0>>,
                 ![ANGLE_Z] = <<(0 - cy) * sz, (0 - sx) * sy * sz - cx * cz,
                                (0 - cx) * sy * sz + sx * cz, 0>>],
       dy |-> [self.rot_trans_3D_dy_ EXCEPT
                 ![ANGLE_X] = <<0, cx * sy * sz - sx * cz,
                                (0 - sx) * sy * sz - cx * cz, 0>>,
                 ![ANGLE_Y] = <<(0 - sy) * sz, sx * cy * sz, cx * cy * sz, 0>>,
                 ![ANGLE_Z] = <<cy * cz, sx * sy * cz - cx * sz,
                                cx * sy * cz + sx * sz, 0>>],
       dz |-> [self.rot_trans_3D_dz_ EXCEPT
                 ![ANGLE_X] = <<0, cx * cy, (0 - sx) * cy, 0>>,
                 ![ANGLE_Y] = <<0 - cy, (0 - sx) * sy, (0 - cx) * sy, 0>>,
                 ![ANGLE_Z] = <<0, 0, 0, 0>>]]

\* lines 821-830: the first call sizes the members
AssignRotTrans(self) ==
  IF Len(self.rot_trans_3D_x_) # 4
  THEN [self EXCEPT !.rot_trans_3D_x_ = Zero4,
                    !.rot_trans_3D_y_ = Zero4,
                    !.rot_trans_3D_z_ = Zero4,
                    !.rot_trans_3D_dx_ = [i \in 1..6 |-> Zero4],
                    !.rot_trans_3D_dy_ = [i \in 1..6 |-> Zero4],
                    !.rot_trans_3D_dz_ = [i \in 1..6 |-> Zero4]]
  ELSE self

\* Camera_System::initialize_rot_trans_3D(rigid_body_params, partials)
initialize_rot_trans_3D(self, rigid_body_params, partials) ==
  LET sized == AssignRotTrans(self)
  IN  IF Len(rigid_body_params) # 6
      THEN [ok |-> FALSE, err |-> "", sys |-> sized]
      ELSE LET co == RotTransCoefficients(rigid_body_params)
               withRows == [sized EXCEPT !.rot_trans_3D_x_ = co.x,
                                         !.rot_trans_3D_y_ = co.y,
                                         !.rot_trans_3D_z_ = co.z]
               pa == RotTransPartials(sized, rigid_body_params)
           IN  [ok |-> TRUE, err |-> "",
                sys |-> IF partials
                        THEN [withRows EXCEPT !.rot_trans_3D_dx_ = pa.dx,
                                              !.rot_trans_3D_dy_ = pa.dy,
                                              !.rot_trans_3D_dz_ = pa.dz]
                        ELSE withRows]

\* lines 913-928: the tests of rot_trans_3D on its arguments
RotTransArgumentsAccepted(c) ==
  LET vec_size == Len(c.source_x)
      has_derivatives == Len(c.target_dx) > 0
  IN  /\ ~(Len(c.source_x) # 0)
      /\ Len(c.source_y) = vec_size
      /\ Len(c.source_z) = vec_size
      /\ Len(c.target_x) = vec_size
      /\ Len(c.target_y) = vec_size
      /\ Len(c.target_z) = vec_size
      /\ has_derivatives =>
           /\ Len(c.target_dx) = 6
           /\ Len(c.target_dy) = 6
           /\ Len(c.target_dz) = 6
           /\ \A i \in 1..6 : /\ Len(c.target_dx[i]) = vec_size
                              /\ Len(c.target_dy[i]) = vec_size
                              /\ Len(c.target_dz[i]) = vec_size

\* lines 932-936: one point through the rows the members hold
RotTransPoint(row, c, i) ==
  row[1] * c.source_x[i] + row[2] * c.source_y[i] + row[3] * c.source_z[i] + row[4]

\* lines 941-945: one partial of one point through the members
RotTransPartial(row, c, i) ==
  row[1] * c.source_x[i] + row[2] * c.source_y[i] + row[3] * c.source_z[i]

\* lines 938-953: the six rows of one derivative array; unit is the row
\* of the translation along the array's own axis
RotTransDerivatives(member, c, unit) ==
  [j \in 1..6 |->
     [i \in 1..Len(c.source_x) |->
        IF j <= 3 THEN RotTransPartial(member[j], c, i)
        ELSE IF j = unit THEN 1 ELSE 0]]

\* lines 931-953: the transformation, reading the members
RotTransApply(self, c) ==
  LET vec_size == Len(c.source_x)
      has_derivatives == Len(c.target_dx) > 0
  IN  [target_x |-> [i \in 1..vec_size |-> RotTransPoint(self.rot_trans_3D_x_, c, i)],
       target_y |-> [i \in 1..vec_size |-> RotTransPoint(self.rot_trans_3D_y_, c, i)],
       target_z |-> [i \in 1..vec_size |-> RotTransPoint(self.rot_trans_3D_z_, c, i)],
       target_dx |-> IF has_derivatives
                     THEN RotTransDerivatives(self.rot_trans_3D_dx_, c, TRANSLATION_X)
                     ELSE c.target_dx,
       target_dy |-> IF has_derivatives
                     THEN RotTransDerivatives(self.rot_trans_3D_dy_, c, TRANSLATION_Y)
                     ELSE c.target_dy,
       target_dz |-> IF has_derivatives
                     THEN RotTransDerivatives(self.rot_trans_3D_dz_, c, TRANSLATION_Z)
                     ELSE c.target_dz]

\* the arrays of a call that threw: what the caller passed in
RotTransUntouched(c) ==
  [target_x |-> c.target_x, target_y |-> c.target_y, target_z |-> c.target_z,
   target_dx |-> c.target_dx, target_dy |-> c.target_dy, target_dz |-> c.target_dz]

\* Camera_System::rot_trans_3D(source_x, source_y, source_z, target_x,
\* target_y, target_z, params, target_dx, target_dy, target_dz)
rot_trans_3D(self, c) ==
  IF ~RotTransArgumentsAccepted(c)
  THEN [ok |-> FALSE, err |-> "", sys |-> self, arrays |-> RotTransUntouched(c)]
  ELSE LET ini == initialize_rot_trans_3D(self, c.params, Len(c.target_dx) > 0)
       IN  IF ~ini.ok
           THEN [ok |-> FALSE, err |-> "", sys |-> ini.sys,
                 arrays |-> RotTransUntouched(c)]
           ELSE [ok |-> TRUE, err |-> "", sys |-> ini.sys,
                 arrays |-> RotTransApply(ini.sys, c)]

(***************************************************************************)
(* camera_to_camera_projection.  A call is given by its ids, the lengths   *)
(* of the coordinate and parameter vectors, for img_target_dx and          *)
(* img_target_dy the lengths of their rows, and the rigid body parameters  *)
(* themselves.  The stages of the optical model are methods of             *)
(* DICe::Camera; the outcome records which of them were called, in order,  *)
(* whether the output arrays were written, and what the rows of the        *)
(* derivative arrays are partials of.                                      *)
(***************************************************************************)
\* lines 732-757 without the tests on the rows of the derivative arrays
ProjectionPreconditionsNoRows(self, a) ==
  LET vec_size == a.img_source_x
      num_params == Len(a.img_target_dx)
      has_derivatives == num_params > 0
      has_rigid_body == Len(a.rigid_body_params) > 0
  IN  IF a.params # 3 THEN [ok |-> FALSE, err |-> ""]
      ELSE IF a.source_id < 0 \/ a.source_id >= Len(self.cameras_)
      THEN [ok |-> FALSE, err |-> "invalid source id"]
      ELSE IF a.target_id < 0 \/ a.target_id >= Len(self.cameras_)
      THEN [ok |-> FALSE, err |-> "invalid target id"]
      ELSE IF a.img_source_y # vec_size THEN [ok |-> FALSE, err |-> ""]
      ELSE IF a.img_target_x # vec_size THEN [ok |-> FALSE, err |-> ""]
      ELSE IF a.img_target_y # vec_size THEN [ok |-> FALSE, err |-> ""]
      ELSE IF has_derivatives /\ has_rigid_body /\ num_params # 6
      THEN [ok |-> FALSE, err |-> ""]
      ELSE IF has_derivatives /\ ~has_rigid_body /\ num_params # 3
      THEN [ok |-> FALSE, err |-> ""]
      ELSE IF has_derivatives /\ Len(a.img_target_dy) # num_params
      THEN [ok |-> FALSE, err |-> ""]
      ELSE IF has_rigid_body /\ Len(a.rigid_body_params) # 6
      THEN [ok |-> FALSE, err |-> "invalid rigid body parameter vector size"]
      ELSE [ok |-> TRUE, err |-> ""]

\* lines 732-757: the tests on the arguments
ProjectionPreconditions(self, a) ==
  LET vec_size == a.img_source_x
      num_params == Len(a.img_target_dx)
      has_derivatives == num_params > 0
      has_rigid_body == Len(a.rigid_body_params) > 0
  IN  IF a.params # 3 THEN [ok |-> FALSE, err |-> ""]
      ELSE IF a.source_id < 0 \/ a.source_id >= Len(self.cameras_)
      THEN [ok |-> FALSE, err |-> "invalid source id"]
      ELSE IF a.target_id < 0 \/ a.target_id >= Len(self.cameras_)
      THEN [ok |-> FALSE, err |-> "invalid target id"]
      ELSE IF a.img_source_y # vec_size THEN [ok |-> FALSE, err |-> ""]
      ELSE IF a.img_target_x # vec_size THEN [ok |-> FALSE, err |-> ""]
      ELSE IF a.img_target_y # vec_size THEN [ok |-> FALSE, err |-> ""]
      ELSE IF has_derivatives /\ has_rigid_body /\ num_params # 6
      THEN [ok |-> FALSE, err |-> ""]
      ELSE IF has_derivatives /\ ~has_rigid_body /\ num_params # 3
      THEN [ok |-> FALSE, err |-> ""]
      ELSE IF has_derivatives /\ Len(a.img_target_dy) # num_params
      THEN [ok |-> FALSE, err |-> ""]
      ELSE IF has_derivatives /\ \E i \in 1..num_params :
                a.img_target_dx[i] # vec_size \/ a.img_target_dy[i] # vec_size
      THEN [ok |-> FALSE, err |-> ""]
      ELSE IF has_rigid_body /\ Len(a.rigid_body_params) # 6
      THEN [ok |-> FALSE, err |-> "invalid rigid body parameter vector size"]
      ELSE [ok |-> TRUE, err |-> ""]

\* lines 759-769: a temporary vector of vec_size zeros
TmpVector(vec_size) == [i \in 1..vec_size |-> 0]

\* lines 775-780: temporary derivative arrays of num_params rows
TmpRows(num_params, vec_size) == [j \in 1..num_params |-> TmpVector(vec_size)]

\* lines 790-791 and 806: the call of rot_trans_3D on the temporaries; the
\* call without derivative arrays passes empty ones
RotTransOfProjection(a) ==
  LET vec_size == a.img_source_x
      num_params == Len(a.img_target_dx)
  IN  [source_x |-> TmpVector(vec_size), source_y |-> TmpVector(vec_size),
       source_z |-> TmpVector(vec_size),
       target_x |-> TmpVector(vec_size), target_y |-> TmpVector(vec_size),
       target_z |-> TmpVector(vec_size),
       params |-> a.rigid_body_params,
       target_dx |-> TmpRows(num_params, vec_size),
       target_dy |-> TmpRows(num_params, vec_size),
       target_dz |-> TmpRows(num_params, vec_size)]

\* what the rows of img_target_dx and img_target_dy are partials of: the
\* rows rot_trans_3D fills (lines 938-953) when there is a rigid body
\* motion, the rows sensor_to_cam fills from params (line 793) otherwise
RigidBodyRows ==
  <<"ANGLE_X", "ANGLE_Y", "ANGLE_Z",
    "TRANSLATION_X", "TRANSLATION_Y", "TRANSLATION_Z">>

ShapeFunctionRows == <<"params[0]", "params[1]", "params[2]">>

\* the derivative branch without the call of cam_to_world before rot_trans_3D
ProjectionStagesNoCamToWorld(self, a) ==
  LET num_params == Len(a.img_target_dx)
      has_derivatives == num_params > 0
      has_rigid_body == Len(a.rigid_body_params) > 0
      back == <<"world_to_cam", "cam_to_sensor", "sensor_to_image">>
      to_cam == <<"image_to_sensor", "sensor_to_cam">>
      to_rb == IF has_derivatives THEN <<"rot_trans_3D">>
               ELSE <<"cam_to_world", "rot_trans_3D">>
  IN  IF has_rigid_body
      THEN LET r == rot_trans_3D(self, RotTransOfProjection(a))
           IN  IF r.ok
               THEN [ok |-> TRUE, err |-> "", written |-> TRUE,
                     stages |-> to_cam \o to_rb \o back,
                     rows |-> IF has_derivatives THEN RigidBodyRows ELSE <<>>,
                     sys |-> r.sys]
               ELSE [ok |-> FALSE, err |-> r.err, written |-> FALSE,
                     stages |-> to_cam \o to_rb,
                     rows |-> <<>>, sys |-> r.sys]
      ELSE [ok |-> TRUE, err |-> "", written |-> TRUE,
            stages |-> to_cam \o <<"cam_to_world">> \o back,
            rows |-> IF has_derivatives THEN ShapeFunctionRows ELSE <<>>,
            sys |-> self]

\* lines 783-813: traverse the projections from image to world for the
\* source camera and back to the image of the target camera
ProjectionStages(self, a) ==
  LET num_params == Len(a.img_target_dx)
      has_derivatives == num_params > 0
      has_rigid_body == Len(a.rigid_body_params) > 0
      back == <<"world_to_cam", "cam_to_sensor", "sensor_to_image">>
      to_cam == <<"image_to_sensor", "sensor_to_cam">>
  IN  IF has_rigid_body
      THEN LET r == rot_trans_3D(self, RotTransOfProjection(a))
           IN  IF r.ok
               THEN [ok |-> TRUE, err |-> "", written |-> TRUE,
                     stages |-> to_cam \o <<"cam_to_world", "rot_trans_3D">> \o back,
                     rows |-> IF has_derivatives THEN RigidBodyRows ELSE <<>>,
                     sys |-> r.sys]
               ELSE [ok |-> FALSE, err |-> r.err, written |-> FALSE,
                     stages |-> to_cam \o <<"cam_to_world", "rot_trans_3D">>,
                     rows |-> <<>>, sys |-> r.sys]
      ELSE [ok |-> TRUE, err |-> "", written |-> TRUE,
            stages |-> to_cam \o <<"cam_to_world">> \o back,
            rows |-> IF has_derivatives THEN ShapeFunctionRows ELSE <<>>,
            sys |-> self]

\* Camera_System::camera_to_camera_projection(source_id, target_id, ...)
camera_to_camera_projection(self, a) ==
  LET pre == ProjectionPreconditions(self, a)
  IN  IF ~pre.ok
      THEN [ok |-> FALSE, err |-> pre.err, written |-> FALSE, stages |-> <<>>,
            rows |-> <<>>, sys |-> self]
      ELSE ProjectionStages(self, a)

(***************************************************************************)
(* The calibration files the model reads.                                  *)
(***************************************************************************)
\* paths: cal.xml, cal.txt, cal.dat, xml/cal.txt, txt/cal.dat, cal.txt.bak
PathCalXml == <<"c", "a", "l", ".", "x", "m", "l">>
PathCalTxt == <<"c", "a", "l", ".", "t", "x", "t">>
PathCalDat == <<"c", "a", "l", ".", "d", "a", "t">>
PathXmlDirCalTxt == <<"x", "m", "l", "/">> \o PathCalTxt
PathTxtDirCalDat == <<"t", "x", "t", "/">> \o PathCalDat
PathCalTxtBak == PathCalTxt \o <<".", "b", "a", "k">>
PathOut == <<"o", "u", "t", ".", "x", "m", "l">>

\* the extension of a path: the characters after its last dot
RECURSIVE Extension(_)
Extension(path) ==
  IF Len(path) = 0 THEN <<>>
  ELSE IF \E k \in 1..Len(path) : path[k] = "."
  THEN LET k == CHOOSE i \in 1..Len(path) :
                  path[i] = "." /\ \A j \in (i + 1)..Len(path) : path[j] # "."
       IN  SubSeq(path, k + 1, Len(path))
  ELSE <<>>

TextFile(path, lines) ==
  [cal_file |-> path, exists |-> TRUE, teuchos |-> FALSE,
   sys_params |-> NoParams, lines |-> lines]

XmlFile(path, params) ==
  [cal_file |-> path, exists |-> TRUE, teuchos |-> TRUE,
   sys_params |-> params, lines |-> ParameterListLines]

MissingFile(path) ==
  [cal_file |-> path, exists |-> FALSE, teuchos |-> FALSE,
   sys_params |-> NoParams, lines |-> <<>>]

(* camera groups of the canonical dialect *)
RowsAll == [j \in 0..2 |-> IF j = 0 THEN <<0, 0 - 1, 0>>
                           ELSE IF j = 1 THEN <<1, 0, 0>> ELSE <<0, 0, 1>>]

RowsTwo == [j \in 0..1 |-> RowsAll[j]]

BaseGroup ==
  [ CAMERA_ID |-> <<>>,
    intrinsics |-> [k \in {1, 3} |-> IF k = 1 THEN 7 ELSE 1234567],
    LENS_DISTORTION_MODEL |-> <<"OPENCV_DIS">>,
    TX |-> <<3>>, TY |-> <<>>, TZ |-> <<>>,
    ALPHA |-> <<>>, BETA |-> <<>>, GAMMA |-> <<>>,
    rotation_3x3_matrix |-> <<>>,
    IMAGE_HEIGHT_WIDTH |-> << <<500, 1000>> >>,
    PIXEL_DEPTH |-> <<>>, LENS |-> <<>>, COMMENTS |-> <<>> ]

\* a camera group with the two required entries only
MinimalGroup ==
  [ CAMERA_ID |-> <<>>,
    intrinsics |-> [k \in {} |-> 0],
    LENS_DISTORTION_MODEL |-> <<"OPENCV_DIS">>,
    TX |-> <<>>, TY |-> <<>>, TZ |-> <<>>,
    ALPHA |-> <<>>, BETA |-> <<>>, GAMMA |-> <<>>,
    rotation_3x3_matrix |-> <<>>,
    IMAGE_HEIGHT_WIDTH |-> << <<500, 1000>> >>,
    PIXEL_DEPTH |-> <<>>, LENS |-> <<>>, COMMENTS |-> <<>> ]

GroupVariants ==
  { BaseGroup, MinimalGroup,
    [BaseGroup EXCEPT !.ALPHA = <<90>>],
    [BaseGroup EXCEPT !.GAMMA = <<180>>, !.BETA = <<90>>],
    [BaseGroup EXCEPT !.rotation_3x3_matrix = <<RowsAll>>],
    [BaseGroup EXCEPT !.rotation_3x3_matrix = <<RowsTwo>>],
    [BaseGroup EXCEPT !.rotation_3x3_matrix = <<RowsAll>>, !.ALPHA = <<90>>],
    [BaseGroup EXCEPT !.rotation_3x3_matrix = <<RowsTwo>>, !.BETA = <<90>>],
    [BaseGroup EXCEPT !.IMAGE_HEIGHT_WIDTH = <<>>],
    [BaseGroup EXCEPT !.LENS_DISTORTION_MODEL = <<>>],
    [BaseGroup EXCEPT !.IMAGE_HEIGHT_WIDTH = << <<0, 1000>> >>],
    [BaseGroup EXCEPT !.CAMERA_ID = <<"left">>, !.PIXEL_DEPTH = <<8>>,
                      !.LENS = <<"35mm">>, !.COMMENTS = <<"note">>,
                      !.TX = <<>>, !.TZ = <<0 - 5>>] }

BaseParams ==
  [NoParams EXCEPT !.DICe_XML_Calibration_File = TRUE, !.system_type_3D = <<"OPENCV">>]

\* groups CAMERA 0 .. CAMERA n-1, every one the base group
UniformGroups(n, nl) == [name \in {SublistName(i, nl) : i \in 0..(n - 1)} |-> BaseGroup]

Rows4All == [j \in 0..3 |-> <<j, 1, 0, 1234567>>]

CanonicalParams ==
  {[BaseParams EXCEPT !.cameras = UniformGroups(n, nl)] :
      n \in 0..MaxGroups, nl \in BOOLEAN}
  \cup
  {[BaseParams EXCEPT !.cameras = (SublistName(0, nl) :> g)] :
      g \in GroupVariants, nl \in BOOLEAN}
  \cup
  {[BaseParams EXCEPT !.cameras = (SublistName(0, nl) :> BaseGroup) @@ (SublistName(1, nl) :> g)] :
      g \in GroupVariants, nl \in BOOLEAN}
  \cup
  {[BaseParams EXCEPT !.cameras = (SublistName(i, nl) :> BaseGroup) @@ (SublistName(2, nl) :> BaseGroup)] :
      i \in 0..1, nl \in BOOLEAN}
  \cup
  {[BaseParams EXCEPT !.cameras = (SublistName(0, TRUE) :> BaseGroup) @@ (SublistName(1, FALSE) :> BaseGroup)]}
  \cup
  {[BaseParams EXCEPT !.cameras =
      (SublistName(0, TRUE) :> [BaseGroup EXCEPT !.CAMERA_ID = <<id>>])
      @@ (SublistName(1, TRUE) :> [MinimalGroup EXCEPT !.CAMERA_ID = other])] :
      id \in {"left", "CAMERA 1"}, other \in {<<>>, <<"left">>}}
  \cup
  {[BaseParams EXCEPT !.cameras = UniformGroups(n, TRUE),
                      !.system_type_3D = <<"DICE">>,
                      !.user_6_param_transform = t6,
                      !.user_4x4_param_transform = t4] :
      n \in 0..1,
      t6 \in {<<>>, << <<90, 0, 0, 1, 2, 1234567>> >>},
      t4 \in {<<>>, <<Rows4All>>, <<[j \in 0..1 |-> Rows4All[j]]>>}}
  \cup
  {[BaseParams EXCEPT !.cameras = UniformGroups(n, nl), !.system_type_3D = <<>>] :
      n \in 0..1, nl \in BOOLEAN}
  \cup
  {[BaseParams EXCEPT !.cameras = UniformGroups(n, nl), !.DICe_XML_Calibration_File = FALSE] :
      n \in 0..1, nl \in BOOLEAN}

CanonicalFiles ==
  {XmlFile(PathCalXml, params) : params \in CanonicalParams}
  \cup {XmlFile(PathCalTxt, [BaseParams EXCEPT !.DICe_XML_Calibration_File = m]) :
          m \in BOOLEAN}

(* records of the VIC3D dialect *)
PolygonMask(tag, w, h) == <<"POLYGONMASK", tag, w, "HEIGHT=", h>>

CameraRecord(idx, marker, tail) ==
  <<"CAMERA", "ID=", idx, "1", "2", "3", "7", "10", "90", "180", "500",
    marker, "90", "0", "180", "10", "-5", "7">> \o tail

ClosingTags == <<"/ORIENTATION", "/CAMERA">>

Vic3dMasks ==
  { <<>>,
    <<PolygonMask("WIDTH=", "1000", "500")>>,
    <<PolygonMask("WIDTH=", "0", "500")>>,
    <<PolygonMask("W=", "1000", "500")>> }

Vic3dCameraRecords ==
  LET c0 == CameraRecord("0", "ORIENTATION", ClosingTags)
      c1 == CameraRecord("1", "ORIENTATION", ClosingTags)
  IN  { <<>>, <<c0>>, <<c0, c1>>, <<c1, c0>>, <<c0, c1, c0>>, <<c0, c0>>,
        <<c0, CameraRecord("1", "ORIENTATION", <<>>)>>,
        <<c0, CameraRecord("1", "ORIENTATION", <<"/ORIENTATION">>)>>,
        <<c0, CameraRecord("10", "ORIENTATION", ClosingTags)>>,
        <<c0, CameraRecord("1", "ROTATION", ClosingTags)>> }

Vic3dLines ==
  {<< <<"?XML">>, <<"PROJECT">> >> \o mask \o cams \o << <<"/PROJECT">>, <<>> >> :
      mask \in Vic3dMasks, cams \in Vic3dCameraRecords}
  \cup
  {<< <<"?XML">> >> \o cams \o mask \o << <<>> >> :
      mask \in {<<PolygonMask("WIDTH=", "1000", "500")>>},
      cams \in Vic3dCameraRecords}

(* value lines of the legacy text dialect *)
TxtIntrinsicTokens0 == <<"1", "2", "3", "7", "10", "90", "180", "500">>
TxtIntrinsicTokens1 == <<"500", "180", "90", "10", "7", "3", "2", "1">>
TxtEulerTokens == <<"90", "0", "180">>
TxtMatrixTokens == <<"0", "-1", "0", "1", "0", "0", "0", "0", "1">>
TxtTranslationTokens == <<"10", "-5", "7">>

\* one value per line
ValueLines(toks) == [k \in 1..Len(toks) |-> <<toks[k]>>]

\* one value per line, each followed by a comment
CommentedLines(toks) == [k \in 1..Len(toks) |-> <<toks[k], "#", "VALUE">>]

TxtBody(rot, size) ==
  TxtIntrinsicTokens0 \o TxtIntrinsicTokens1 \o rot \o TxtTranslationTokens \o size

GoodSize == <<"500", "1000">>

TxtLines ==
  LET e == TxtBody(TxtEulerTokens, GoodSize)
      m == TxtBody(TxtMatrixTokens, GoodSize)
  IN  { ValueLines(e), ValueLines(m), CommentedLines(e), CommentedLines(m),
        << <<"#", "INTRINSICS">>, <<>> >> \o ValueLines(e) \o << <<>>, <<"#", "END">> >>,
        << <<"#", "INTRINSICS">> >> \o ValueLines(m) \o << <<>> >>,
        ValueLines(e \o <<"1">>),
        ValueLines(m \o <<"1">>),
        ValueLines(SubSeq(e, 1, 23)),
        ValueLines(SubSeq(m, 1, 29)),
        ValueLines(SubSeq(e, 1, 18)),
        << <<"TRANSFORM">> >> \o ValueLines(e),
        << <<"1", "#", "TRANSFORM">> >> \o ValueLines(SubSeq(e, 2, 24)),
        << <<"1", "TRANSFORM">> >> \o ValueLines(SubSeq(m, 2, 30)),
        ValueLines(SubSeq(e, 1, 20)) \o << <<"TRANSFORM", "#", "OLD">> >>
          \o ValueLines(SubSeq(e, 21, 24)),
        ValueLines(SubSeq(e, 1, 23)) \o << <<"TRANSFORM">> >>,
        ValueLines(TxtBody(TxtEulerTokens, <<"-1", "1000">>)),
        ValueLines(TxtBody(TxtEulerTokens, <<"500", "-5">>)),
        ValueLines(TxtBody(TxtMatrixTokens, <<"0", "1000">>)),
        <<>> }

LegacyPaths ==
  {PathCalXml, PathCalTxt, PathCalDat, PathXmlDirCalTxt, PathTxtDirCalDat, PathCalTxtBak}

TextFiles ==
  {TextFile(PathCalXml, lines) : lines \in Vic3dLines}
  \cup {TextFile(PathCalTxt, lines) : lines \in TxtLines}
  \cup {TextFile(path, lines) :
          path \in LegacyPaths,
          lines \in { ValueLines(TxtBody(TxtEulerTokens, GoodSize)),
                      << <<"?XML">>, PolygonMask("WIDTH=", "1000", "500"),
                         CameraRecord("0", "ORIENTATION", ClosingTags),
                         CameraRecord("1", "ORIENTATION", ClosingTags) >> }}
  \cup {MissingFile(path) : path \in {PathCalXml, PathCalTxt}}

CalibrationFiles == CanonicalFiles \cup TextFiles

(***************************************************************************)
(* The state machine: one Camera_System that is loaded and written, and a  *)
(* fresh Camera_System that re-reads what was written and writes it again. *)
(***************************************************************************)
vars == <<NDEBUG, sys, loads, load, out1, fresh, out2, proj, transforms, threads>>

NoLoad ==
  [called |-> FALSE, file |-> MissingFile(<<>>), ok |-> FALSE, err |-> "",
   pre |-> Camera_System]

Init ==
  /\ NDEBUG \in BOOLEAN
  /\ sys = Camera_System
  /\ loads = 0
  /\ load = NoLoad
  /\ out1 = <<>>
  /\ fresh = <<>>
  /\ out2 = <<>>
  /\ proj = <<>>
  /\ transforms = <<>>
  /\ threads = <<>>

\* the process has not been aborted by a failed assert()
Running == load.err # AssertionFailed

\* sys.read_calibration_file(file.cal_file)
ReadCalibrationFile(file) ==
  /\ Running
  /\ loads < MaxLoads
  /\ out1 = <<>>
  /\ LET r == read_calibration_file(sys, file)
     IN  /\ sys' = r.sys
         /\ load' = [called |-> TRUE, file |-> file, ok |-> r.ok, err |-> r.err,
                     pre |-> sys]
  /\ loads' = loads + 1
  /\ UNCHANGED <<NDEBUG, out1, fresh, out2, proj, transforms, threads>>

\* sys.write_calibration_file("out.xml"); pre is the Camera_System before
WriteCalibrationFile ==
  /\ Running
  /\ fresh = <<>>
  /\ LET w == write_calibration_file(sys, PathOut)
     IN  /\ out1' = <<[ok |-> w.ok, err |-> w.err, file |-> w.file, pre |-> sys]>>
         /\ sys' = w.sys
  /\ UNCHANGED <<NDEBUG, loads, load, fresh, out2, proj, transforms, threads>>

\* Camera_System fresh; fresh.read_calibration_file("out.xml")
ReadBack ==
  /\ out1 # <<>>
  /\ out1[1].ok
  /\ fresh = <<>>
  /\ fresh' = <<read_calibration_file(Camera_System, out1[1].file[1])>>
  /\ UNCHANGED <<NDEBUG, sys, loads, load, out1, out2, proj, transforms, threads>>

\* fresh.write_calibration_file("out.xml")
WriteBack ==
  /\ fresh # <<>>
  /\ out2 = <<>>
  /\ LET w == write_calibration_file(fresh[1].sys, PathOut)
     IN  out2' = <<[ok |-> w.ok, err |-> w.err, file |-> w.file]>>
  /\ UNCHANGED <<NDEBUG, sys, loads, load, out1, fresh, proj, transforms, threads>>

Next ==
  \/ \E file \in CalibrationFiles : ReadCalibrationFile(file)
  \/ WriteCalibrationFile
  \/ ReadBack
  \/ WriteBack

Spec == Init /\ [][Next]_vars

(***************************************************************************)
(* One Camera_System that read_calibration_file is called on repeatedly.   *)
(***************************************************************************)
\* canonical files of 0, 1, 2 and 8 groups under the names the reader looks
\* up, one whose second group lacks a required entry, a file of each legacy
\* dialect, a text file with too few values, and a file that does not exist
ReloadFiles ==
  {XmlFile(PathCalXml, [BaseParams EXCEPT !.cameras = UniformGroups(n, TRUE)]) :
     n \in {0, 1, 2, 8}}
  \cup {XmlFile(PathCalXml,
          [BaseParams EXCEPT !.cameras =
             [UniformGroups(2, TRUE) EXCEPT
                ![SublistName(1, TRUE)].IMAGE_HEIGHT_WIDTH = <<>>]])}
  \cup {TextFile(PathCalTxt, ValueLines(TxtBody(TxtEulerTokens, GoodSize))),
        TextFile(PathCalTxt, ValueLines(TxtIntrinsicTokens0)),
        TextFile(PathCalXml,
          << <<"?XML">>, PolygonMask("WIDTH=", "1000", "500"),
             CameraRecord("0", "ORIENTATION", ClosingTags),
             CameraRecord("1", "ORIENTATION", ClosingTags) >>),
        MissingFile(PathCalXml)}

\* sys.read_calibration_file(file.cal_file), on a system loaded or not
ReadAgain(file) ==
  /\ Running
  /\ loads < MaxReloads
  /\ LET r == read_calibration_file(sys, file)
     IN  /\ sys' = r.sys
         /\ load' = [called |-> TRUE, file |-> file, ok |-> r.ok, err |-> r.err,
                     pre |-> sys]
  /\ loads' = loads + 1
  /\ UNCHANGED <<NDEBUG, out1, fresh, out2, proj, transforms, threads>>

NextReload == \E file \in ReloadFiles : ReadAgain(file)

SpecReload == Init /\ [][NextReload]_vars

(***************************************************************************)
(* Projections on a loaded Camera_System: the system is one a load has     *)
(* produced, and camera_to_camera_projection is called on it.              *)
(***************************************************************************)
\* derivative arrays of n rows of len entries
SizeRows(n, len) == [i \in 1..n |-> len]

\* no rigid body motion, and two motions: a quarter turn about x with a
\* translation, and a quarter turn about z with another
NoMotion == <<>>
TurnAboutX == <<1, 0, 0, 10, 20, 30>>
TurnAboutZ == <<0, 0, 1, 7, 0, 0 - 3>>
RigidBodyParams == {NoMotion, TurnAboutX}

\* calls whose vectors all have n entries
BaseCalls ==
  {[source_id |-> 0, target_id |-> 1,
    img_source_x |-> n, img_source_y |-> n, img_target_x |-> n, img_target_y |-> n,
    params |-> 3,
    img_target_dx |-> SizeRows(d, n), img_target_dy |-> SizeRows(d, n),
    rigid_body_params |-> r] :
      n \in 0..MaxPoints, d \in {0, 3, 6}, r \in RigidBodyParams}

\* those of them with no point and with the most points
EdgeCalls == {b \in BaseCalls : b.img_source_x \in {0, MaxPoints}}

\* ... and calls that differ from one of these in one argument
ProjectionCalls ==
  BaseCalls
  \cup {[c EXCEPT !.params = 2] : c \in EdgeCalls}
  \cup {[c EXCEPT !.source_id = i] : c \in EdgeCalls, i \in 1..2}
  \cup {[c EXCEPT !.target_id = i] : c \in EdgeCalls, i \in {0, 2}}
  \cup {[c EXCEPT !.img_source_y = @ + 1] : c \in EdgeCalls}
  \cup {[c EXCEPT !.img_target_x = @ + 1] : c \in EdgeCalls}
  \cup {[c EXCEPT !.img_target_y = @ + 1] : c \in EdgeCalls}
  \cup {[c EXCEPT !.img_target_dy = SizeRows(d, c.img_source_x)] :
          c \in EdgeCalls, d \in {0, 2, 3, 6}}
  \cup {[c EXCEPT !.img_target_dx = SizeRows(2, c.img_source_x),
                  !.img_target_dy = SizeRows(2, c.img_source_x)] : c \in EdgeCalls}
  \cup {[c EXCEPT !.img_target_dx[k] = @ + 1] :
          c \in {b \in EdgeCalls : Len(b.img_target_dx) > 0}, k \in {1, 3}}
  \cup {[c EXCEPT !.img_target_dy[k] = @ + 1] :
          c \in {b \in EdgeCalls : Len(b.img_target_dy) > 0}, k \in {2, 3}}
  \cup {[c EXCEPT !.rigid_body_params = <<1, 0, 0, 10>>] : c \in EdgeCalls}
  \cup {[c EXCEPT !.rigid_body_params = TurnAboutZ] :
          c \in {b \in EdgeCalls : b.rigid_body_params # NoMotion}}

\* files whose load leaves 0, 1 and 2 cameras
ProjectionFiles ==
  { XmlFile(PathCalXml, BaseParams),
    XmlFile(PathCalXml, [BaseParams EXCEPT !.cameras = UniformGroups(1, TRUE)]),
    TextFile(PathCalTxt, ValueLines(TxtBody(TxtEulerTokens, GoodSize))) }

InitProjection ==
  /\ NDEBUG \in BOOLEAN
  /\ \E file \in ProjectionFiles :
       LET r == read_calibration_file(Camera_System, file)
       IN  /\ sys = r.sys
           /\ load = [called |-> TRUE, file |-> file, ok |-> r.ok, err |-> r.err,
                      pre |-> Camera_System]
  /\ loads = 1
  /\ out1 = <<>>
  /\ fresh = <<>>
  /\ out2 = <<>>
  /\ proj = <<>>
  /\ transforms = <<>>
  /\ threads = <<>>

\* sys.camera_to_camera_projection(a.source_id, a.target_id, ...)
Project(a) ==
  /\ Running
  /\ Len(proj) < MaxProjections
  /\ LET r == camera_to_camera_projection(sys, a)
     IN  /\ proj' = <<[args |-> a, ok |-> r.ok, err |-> r.err,
                        written |-> r.written, stages |-> r.stages,
                        rows |-> r.rows, pre |-> sys]>> \o proj
         /\ sys' = r.sys
  /\ UNCHANGED <<NDEBUG, loads, load, out1, fresh, out2, transforms, threads>>

NextProjection == \E a \in ProjectionCalls : Project(a)

SpecProjection == InitProjection /\ [][NextProjection]_vars

(***************************************************************************)
(* rot_trans_3D called on a constructed Camera_System.                     *)
(***************************************************************************)
\* the coordinates of n points
PointsX(n) == [i \in 1..n |-> i]
PointsY(n) == [i \in 1..n |-> 2 * i + 1]
PointsZ(n) == [i \in 1..n |-> 5 - i]

\* a quarter turn about every axis, and a half turn about y
TurnAboutAll == <<1, 1, 1, 1, 2, 3>>
HalfTurnAboutY == <<0, 2, 0, 0 - 4, 0, 9>>

\* calls whose arrays all have n entries, with d rows of derivatives
BaseTransforms ==
  {[source_x |-> PointsX(n), source_y |-> PointsY(n), source_z |-> PointsZ(n),
    target_x |-> TmpVector(n), target_y |-> TmpVector(n), target_z |-> TmpVector(n),
    params |-> p,
    target_dx |-> TmpRows(d, n), target_dy |-> TmpRows(d, n),
    target_dz |-> TmpRows(d, n)] :
      n \in 0..MaxPoints, d \in {0, 6},
      p \in {TurnAboutX, TurnAboutZ, TurnAboutAll, HalfTurnAboutY}}

\* ... and calls that differ from one of them in one argument
Transforms ==
  BaseTransforms
  \cup {[c EXCEPT !.params = q] :
          c \in {b \in BaseTransforms : b.params = TurnAboutX},
          q \in {<<>>, <<1, 0, 0, 10>>, <<1, 0, 0, 10, 20, 30, 40>>}}
  \cup {[c EXCEPT !.source_y = Append(@, 0)] :
          c \in {b \in BaseTransforms : b.params = TurnAboutX}}
  \cup {[c EXCEPT !.target_z = Append(@, 0)] :
          c \in {b \in BaseTransforms : b.params = TurnAboutX}}
  \cup {[c EXCEPT !.target_dx = TmpRows(3, Len(c.source_x)),
                  !.target_dy = TmpRows(3, Len(c.source_x)),
                  !.target_dz = TmpRows(3, Len(c.source_x))] :
          c \in {b \in BaseTransforms : b.params = TurnAboutX /\ Len(b.target_dx) = 6}}
  \cup {[c EXCEPT !.target_dz[5] = Append(@, 0)] :
          c \in {b \in BaseTransforms : b.params = TurnAboutX /\ Len(b.target_dx) = 6}}

InitRotTrans ==
  /\ NDEBUG \in BOOLEAN
  /\ sys = Camera_System
  /\ loads = 0
  /\ load = NoLoad
  /\ out1 = <<>>
  /\ fresh = <<>>
  /\ out2 = <<>>
  /\ proj = <<>>
  /\ transforms = <<>>
  /\ threads = <<>>

\* sys.rot_trans_3D(c.source_x, ..., c.target_dz)
RotTrans(c) ==
  /\ Len(transforms) < MaxTransforms
  /\ LET r == rot_trans_3D(sys, c)
     IN  /\ transforms' = <<[call |-> c, ok |-> r.ok, err |-> r.err,
                       arrays |-> r.arrays, pre |-> sys]>> \o transforms
         /\ sys' = r.sys
  /\ UNCHANGED <<NDEBUG, loads, load, out1, fresh, out2, proj, threads>>

NextRotTrans == \E c \in Transforms : RotTrans(c)

SpecRotTrans == InitRotTrans /\ [][NextRotTrans]_vars

(***************************************************************************)
(* rot_trans_3D called by several threads on one Camera_System.  Each      *)
(* thread runs the statements of rot_trans_3D in order; a step is the      *)
(* argument tests, one of the three parts of initialize_rot_trans_3D, one  *)
(* point of the loop, or the derivative loops.  The members of the         *)
(* Camera_System are read and written without synchronisation.             *)
(***************************************************************************)
Threads == 1..NumThreads

ConcurrentTransforms ==
  {c \in BaseTransforms : c.params \in {TurnAboutX, TurnAboutZ}}
  \cup {[c EXCEPT !.params = <<1, 0, 0, 10>>] :
          c \in {b \in BaseTransforms : b.params = TurnAboutX}}

InitConcurrent ==
  /\ NDEBUG \in BOOLEAN
  /\ sys = Camera_System
  /\ loads = 0
  /\ load = NoLoad
  /\ out1 = <<>>
  /\ fresh = <<>>
  /\ out2 = <<>>
  /\ proj = <<>>
  /\ transforms = <<>>
  /\ \E calls \in [Threads -> ConcurrentTransforms] :
       threads = [t \in Threads |->
                    [call |-> calls[t], pc |-> "tests", i |-> 0,
                     arrays |-> RotTransUntouched(calls[t])]]

\* lines 913-928
ThreadTests(t) ==
  /\ threads[t].pc = "tests"
  /\ threads' = [threads EXCEPT ![t].pc =
                   IF RotTransArgumentsAccepted(threads[t].call)
                   THEN "assign" ELSE "threw"]
  /\ UNCHANGED <<NDEBUG, sys, loads, load, out1, fresh, out2, proj, transforms>>

\* lines 821-831
ThreadAssign(t) ==
  /\ threads[t].pc = "assign"
  /\ sys' = AssignRotTrans(sys)
  /\ threads' = [threads EXCEPT ![t].pc =
                   IF Len(threads[t].call.params) # 6 THEN "threw" ELSE "rows"]
  /\ UNCHANGED <<NDEBUG, loads, load, out1, fresh, out2, proj, transforms>>

\* lines 832-854
ThreadRows(t) ==
  /\ threads[t].pc = "rows"
  /\ LET co == RotTransCoefficients(threads[t].call.params)
     IN  sys' = [sys EXCEPT !.rot_trans_3D_x_ = co.x,
                            !.rot_trans_3D_y_ = co.y,
                            !.rot_trans_3D_z_ = co.z]
  /\ threads' = [threads EXCEPT ![t].pc =
                   IF Len(threads[t].call.target_dx) > 0 THEN "partials" ELSE "apply"]
  /\ UNCHANGED <<NDEBUG, loads, load, out1, fresh, out2, proj, transforms>>

\* lines 856-895
ThreadPartials(t) ==
  /\ threads[t].pc = "partials"
  /\ LET pa == RotTransPartials(sys, threads[t].call.params)
     IN  sys' = [sys EXCEPT !.rot_trans_3D_dx_ = pa.dx,
                            !.rot_trans_3D_dy_ = pa.dy,
                            !.rot_trans_3D_dz_ = pa.dz]
  /\ threads' = [threads EXCEPT ![t].pc = "apply"]
  /\ UNCHANGED <<NDEBUG, loads, load, out1, fresh, out2, proj, transforms>>

\* lines 932-937: the test of the loop and the body for one point
ThreadApply(t) ==
  /\ threads[t].pc = "apply"
  /\ LET c == threads[t].call
         i == threads[t].i + 1
     IN  threads' =
           IF i <= Len(c.source_x)
           THEN [threads EXCEPT
                   ![t].i = i,
                   ![t].arrays.target_x[i] = RotTransPoint(sys.rot_trans_3D_x_, c, i),
                   ![t].arrays.target_y[i] = RotTransPoint(sys.rot_trans_3D_y_, c, i),
                   ![t].arrays.target_z[i] = RotTransPoint(sys.rot_trans_3D_z_, c, i)]
           ELSE [threads EXCEPT ![t].pc =
                   IF Len(c.target_dx) > 0 THEN "derivatives" ELSE "returned"]
  /\ UNCHANGED <<NDEBUG, sys, loads, load, out1, fresh, out2, proj, transforms>>

\* lines 938-953
ThreadDerivatives(t) ==
  /\ threads[t].pc = "derivatives"
  /\ LET c == threads[t].call
     IN  threads' = [threads EXCEPT
           ![t].pc = "returned",
           ![t].arrays.target_dx = RotTransDerivatives(sys.rot_trans_3D_dx_, c, TRANSLATION_X),
           ![t].arrays.target_dy = RotTransDerivatives(sys.rot_trans_3D_dy_, c, TRANSLATION_Y),
           ![t].arrays.target_dz = RotTransDerivatives(sys.rot_trans_3D_dz_, c, TRANSLATION_Z)]
  /\ UNCHANGED <<NDEBUG, sys, loads, load, out1, fresh, out2, proj, transforms>>

NextConcurrent ==
  \E t \in Threads :
    \/ ThreadTests(t)
    \/ ThreadAssign(t)
    \/ ThreadRows(t)
    \/ ThreadPartials(t)
    \/ ThreadApply(t)
    \/ ThreadDerivatives(t)

SpecConcurrent == InitConcurrent /\ [][NextConcurrent]_vars

TypeOK ==
  /\ loads \in 0..(MaxLoads + MaxReloads)
  /\ sys.sys_type_ \in System_Type_3D \cup {"UNKNOWN_SYSTEM"}
  /\ load.called \in BOOLEAN

(***************************************************************************)
(* Vocabulary of the claims.                                               *)
(***************************************************************************)
LoadedIntoEmpty == load.called /\ load.pre = Camera_System

\* the file is one the Teuchos parser reads into a parameter list
TeuchosFile(file) == file.exists /\ file.teuchos

\* ... and it carries the marker DICe_XML_Calibration_File
CanonicalFile(file) == TeuchosFile(file) /\ file.sys_params.DICe_XML_Calibration_File

\* a file for the legacy dialects
PlainTextFile(file) == file.exists /\ ~file.teuchos

\* the indexes n for which the file has a group CAMERA n
GroupIndexes(params) == {name.idx : name \in DOMAIN params.cameras}

GroupAt(params, i) ==
  params.cameras[CHOOSE name \in DOMAIN params.cameras : name.idx = i]

\* the smallest n for which the file has no group CAMERA n
FirstMissingGroup(params) ==
  CHOOSE k \in 0..(Cardinality(GroupIndexes(params))) :
    k \notin GroupIndexes(params) /\ \A j \in 0..(k - 1) : j \in GroupIndexes(params)

RecordsNamed(lines, tag) ==
  SelectSeq(lines, LAMBDA tokens : Len(tokens) > 0 /\ tokens[1] = tag)

WellFormedMask(tokens) ==
  /\ Len(tokens) = 5
  /\ tokens[2] = "WIDTH=" /\ strtod(tokens[3]) > 0
  /\ tokens[4] = "HEIGHT=" /\ strtod(tokens[5]) > 0

WellFormedCameraRecord(tokens) ==
  /\ Len(tokens) = 20
  /\ tokens[2] = "ID=" /\ strtod(tokens[3]) \in 0..9
  /\ tokens[12] = "ORIENTATION"
  /\ tokens[19] = "/ORIENTATION" /\ tokens[20] = "/CAMERA"

\* the value lines of a legacy text file: non-empty, not a comment
ValueLinesOf(lines) ==
  SelectSeq(lines, LAMBDA tokens : Len(tokens) > 0 /\ tokens[1] # "#")

\* the i-th value (1-based) of a legacy text file
ValueOf(lines, i) == strtod(ValueLinesOf(lines)[i][1])

(***************************************************************************)
(* C1.  For a Camera_System loaded from canonical content, writing it,     *)
(* reading the written file into a fresh Camera_System and writing that    *)
(* again succeeds at every step, and the second file equals the first.     *)
(***************************************************************************)
C1_RoundTripIdempotent ==
  (LoadedIntoEmpty /\ load.ok /\ CanonicalFile(load.file)) =>
    /\ out1 # <<>> => out1[1].ok
    /\ fresh # <<>> => fresh[1].ok
    /\ out2 # <<>> => (out2[1].ok /\ out2[1].file = out1[1].file)

(***************************************************************************)
(* C2.  Loading a VIC3D file with one POLYGONMASK record of positive width *)
(* W and height H and exactly two well-formed CAMERA records yields system *)
(* type VIC3D and exactly 2 cameras, each of width W and height H, with    *)
(* distortion model K1R1_K2R2_K3R3 and the intrinsics CX, CY, FX, FY, FS,  *)
(* K1, K2, K3 taken in that order from its record.                         *)
(***************************************************************************)
C2_Applies ==
  /\ LoadedIntoEmpty
  /\ PlainTextFile(load.file)
  /\ Extension(load.file.cal_file) = xml
  /\ Len(RecordsNamed(load.file.lines, "POLYGONMASK")) = 1
  /\ WellFormedMask(RecordsNamed(load.file.lines, "POLYGONMASK")[1])
  /\ Len(RecordsNamed(load.file.lines, "CAMERA")) = 2
  /\ \A i \in 1..2 : WellFormedCameraRecord(RecordsNamed(load.file.lines, "CAMERA")[i])

C2_Vic3dLoad ==
  C2_Applies =>
    LET mask == RecordsNamed(load.file.lines, "POLYGONMASK")[1]
        records == RecordsNamed(load.file.lines, "CAMERA")
    IN  /\ load.ok
        /\ sys.sys_type_ = "VIC3D"
        /\ Len(sys.cameras_) = 2
        /\ \A i \in 1..2 :
             /\ sys.cameras_[i].image_width_ = strtod(mask[3])
             /\ sys.cameras_[i].image_height_ = strtod(mask[5])
             /\ sys.cameras_[i].lens_distortion_model_ = "K1R1_K2R2_K3R3"
             /\ \A k \in 1..8 :
                  sys.cameras_[i].intrinsics_[k] = strtod(records[i][k + 3])

C2_Witness == C2_Applies /\ load.ok /\ Len(sys.cameras_) = 2

(***************************************************************************)
(* C3.  A legacy .txt file loads only when it has exactly 24 or exactly 30 *)
(* value lines: with 24 the rotation of camera 1 is built from the three   *)
(* Euler angles, with 30 it is the nine matrix entries row by row, and     *)
(* with any other count the load fails.                                    *)
(***************************************************************************)
C3_Applies ==
  /\ LoadedIntoEmpty
  /\ PlainTextFile(load.file)
  /\ Extension(load.file.cal_file) = txt
  /\ ~\E p \in 0..Len(load.file.cal_file) : OccursAt(load.file.cal_file, xml, p)

C3_ValueCountDecides ==
  C3_Applies =>
    LET lines == load.file.lines
        n == Len(ValueLinesOf(lines))
        v(i) == ValueOf(lines, i)
    IN  /\ load.ok => n \in {24, 30}
        /\ n \notin {24, 30} => ~load.ok
        /\ (/\ n \in {24, 30}
            /\ \A i \in 1..n : ValueLinesOf(lines)[i][1] # "TRANSFORM"
            /\ \A i \in 1..n : Len(ValueLinesOf(lines)[i]) = 1
                                \/ ValueLinesOf(lines)[i][2] = "#"
            /\ v(n - 1) > 0 /\ v(n) > 0) => load.ok
        /\ (load.ok /\ n = 24) =>
             /\ Len(sys.cameras_) = 2
             /\ sys.cameras_[2].rotation_matrix_ =
                  set_rotation_matrix(Camera_Info, v(17), v(18), v(19)).rotation_matrix_
        /\ (load.ok /\ n = 30) =>
             /\ Len(sys.cameras_) = 2
             /\ sys.cameras_[2].rotation_matrix_ =
                  << <<v(17), v(18), v(19)>>, <<v(20), v(21), v(22)>>,
                     <<v(23), v(24), v(25)>> >>

C3_Witness ==
  /\ C3_Applies
  /\ load.ok
  /\ Len(ValueLinesOf(load.file.lines)) = 30
  /\ sys.cameras_[2].rotation_matrix_ # Identity3

(***************************************************************************)
(* C4.  Loading a canonical file fails when a camera group that the        *)
(* enumeration reaches (no group before it is missing) holds both an Euler *)
(* angle and a rotation_3x3_matrix group.                                  *)
(***************************************************************************)
C4_ConflictRejected ==
  (/\ load.called
   /\ CanonicalFile(load.file)
   /\ \E i \in GroupIndexes(load.file.sys_params) :
        /\ i < FirstMissingGroup(load.file.sys_params)
        /\ has_eulers(GroupAt(load.file.sys_params, i))
        /\ isParameter(GroupAt(load.file.sys_params, i).rotation_3x3_matrix))
  => ~load.ok

(***************************************************************************)
(* C5.  A camera group without Euler angles and with a rotation_3x3_matrix *)
(* group is accepted exactly when the group has ROW 0, ROW 1 and ROW 2;    *)
(* then entry (j,i) of the rotation matrix is the i-th value of ROW j.     *)
(***************************************************************************)
C5_Applies ==
  /\ LoadedIntoEmpty
  /\ CanonicalFile(load.file)
  /\ isParameter(load.file.sys_params.system_type_3D)
  /\ DOMAIN load.file.sys_params.cameras = {camera_sublist_id(0)}
  /\ LET g == GroupAt(load.file.sys_params, 0)
     IN  /\ ~has_eulers(g)
         /\ isParameter(g.rotation_3x3_matrix)
         /\ isParameter(g.LENS_DISTORTION_MODEL)
         /\ isParameter(g.IMAGE_HEIGHT_WIDTH)
         /\ get(g.IMAGE_HEIGHT_WIDTH)[1] > 0 /\ get(g.IMAGE_HEIGHT_WIDTH)[2] > 0

C5_MatrixRowsAccepted ==
  C5_Applies =>
    LET rows == get(GroupAt(load.file.sys_params, 0).rotation_3x3_matrix)
    IN  IF DOMAIN rows = 0..2
        THEN /\ load.ok
             /\ Len(sys.cameras_) = 1
             /\ \A j \in 0..2 : \A i \in 1..3 :
                  sys.cameras_[1].rotation_matrix_[j + 1][i] = rows[j][i]
        ELSE ~load.ok

(***************************************************************************)
(* C6.  As claimed: a file the Teuchos parser reads but that lacks the     *)
(* marker DICe_XML_Calibration_File is handed to the legacy dialects, so   *)
(* the load ends as the extension's legacy parser ends.                    *)
(***************************************************************************)
C6_Applies == load.called /\ TeuchosFile(load.file)
              /\ ~load.file.sys_params.DICe_XML_Calibration_File

C6_FallsThrough ==
  C6_Applies =>
    LET legacy == ReadTextDialects(load.pre, load.file)
    IN  load.ok = legacy.ok /\ load.err = legacy.err /\ sys = legacy.sys

(***************************************************************************)
(* C6, amended.  A file the Teuchos parser reads but that lacks the marker *)
(* DICe_XML_Calibration_File makes the load fail with "DICe XML            *)
(* calibration file not valid"; no legacy dialect is tried and the         *)
(* Camera_System is as before the call.                                    *)
(***************************************************************************)
C6_UnmarkedRejected ==
  C6_Applies =>
    /\ ~load.ok
    /\ load.err = "DICe XML calibration file not valid"
    /\ sys = load.pre

C6_Witness ==
  /\ C6_Applies
  /\ ~load.ok
  /\ isParameter(load.file.sys_params.system_type_3D)
  /\ load.file.sys_params.cameras # NoParams.cameras

(***************************************************************************)
(* C7.  For a file that is not canonical the legacy dialect is chosen by   *)
(* the extension of the path alone: .xml is read as VIC3D, .txt as legacy  *)
(* text, and any other extension is a parse error.                         *)
(***************************************************************************)
C7_DispatchByExtension ==
  (load.called /\ PlainTextFile(load.file)) =>
    LET ext == Extension(load.file.cal_file)
        expected ==
          IF ext = xml THEN ReadVic3d(load.pre, load.file.lines)
          ELSE IF ext = txt THEN ReadTxt(load.pre, load.file.lines)
          ELSE Thrown(load.pre, "unrecognized calibration parameters file format")
    IN  load.ok = expected.ok /\ load.err = expected.err /\ sys = expected.sys

(***************************************************************************)
(* C8.  A canonical file whose camera groups are exactly CAMERA 0 ..       *)
(* CAMERA N-1 loads N cameras for every N up to max_num_cameras_allowed_,  *)
(* and fails with "too many cameras" only for more than that.              *)
(***************************************************************************)
C8_UpToMaxCameras ==
  \A n \in 0..MaxGroups : \A nl \in BOOLEAN :
    (/\ LoadedIntoEmpty
     /\ load.file = XmlFile(PathCalXml, [BaseParams EXCEPT !.cameras = UniformGroups(n, nl)]))
    => /\ n <= max_num_cameras_allowed_ => (load.ok /\ Len(sys.cameras_) = n)
       /\ load.err = "too many cameras defined in the xml calibration file"
            => n > max_num_cameras_allowed_

(***************************************************************************)
(* C9.  After a successful canonical load into an empty Camera_System the  *)
(* cameras are the groups CAMERA 0 .. CAMERA k-1 in index order, k the     *)
(* smallest n for which the file has no group CAMERA n.                    *)
(***************************************************************************)
C9_CamerasAreLeadingGroups ==
  (LoadedIntoEmpty /\ load.ok /\ CanonicalFile(load.file)) =>
    LET params == load.file.sys_params
        k == FirstMissingGroup(params)
    IN  /\ Len(sys.cameras_) = k
        /\ \A i \in 0..(k - 1) :
             sys.cameras_[i + 1] =
               ReadRotation(ReadCameraFields(GroupAt(params, i), i), GroupAt(params, i)).info

(***************************************************************************)
(* C10.  A read_calibration_file call that fails leaves the Camera_System  *)
(* as it was before the call.                                              *)
(***************************************************************************)
C10_FailedLoadLeavesSystem ==
  (load.called /\ ~load.ok) => sys = load.pre

(***************************************************************************)
(* C11.  In every state reached by read_calibration_file calls on one      *)
(* Camera_System, successful or failed, a system of type VIC3D or          *)
(* GENERIC_SYSTEM (the legacy text type) holds exactly 2 cameras.          *)
(***************************************************************************)
C11_TwoCamerasInLegacyDialects ==
  sys.sys_type_ \in {"VIC3D", "GENERIC_SYSTEM"} => Len(sys.cameras_) = 2

(***************************************************************************)
(* C12.  A VIC3D file fails to load whenever its number of CAMERA records  *)
(* is not exactly 2, and whenever no POLYGONMASK record supplies a         *)
(* positive width and height.                                              *)
(***************************************************************************)
C12_Applies ==
  /\ load.called
  /\ PlainTextFile(load.file)
  /\ Extension(load.file.cal_file) = xml

C12_Vic3dRejects ==
  C12_Applies =>
    LET masks == RecordsNamed(load.file.lines, "POLYGONMASK")
        records == RecordsNamed(load.file.lines, "CAMERA")
    IN  /\ Len(records) # 2 => ~load.ok
        /\ (~\E i \in 1..Len(masks) : WellFormedMask(masks[i])) => ~load.ok

(***************************************************************************)
(* C13.  A successful legacy-text load into an empty Camera_System yields  *)
(* exactly 2 cameras with ids "CAMERA 0" and "CAMERA 1", both with         *)
(* distortion model K1R1_K2R2_K3R3 and the image height and width of the   *)
(* file; camera 0 has the identity rotation and zero translation, camera 1 *)
(* the rotation and the translation parsed from the file.                  *)
(***************************************************************************)
C13_Applies ==
  /\ LoadedIntoEmpty
  /\ PlainTextFile(load.file)
  /\ find(load.file.cal_file, xml) = npos
  /\ find(load.file.cal_file, txt) # npos
  /\ load.ok

C13_TxtCameras ==
  C13_Applies =>
    LET lines == load.file.lines
        n == Len(ValueLinesOf(lines))
        v(i) == ValueOf(lines, i)
    IN  /\ Len(sys.cameras_) = 2
        /\ sys.cameras_[1].id_ = "CAMERA 0"
        /\ sys.cameras_[2].id_ = "CAMERA 1"
        /\ \A c \in 1..2 :
             /\ sys.cameras_[c].lens_distortion_model_ = "K1R1_K2R2_K3R3"
             /\ sys.cameras_[c].image_height_ = v(n - 1)
             /\ sys.cameras_[c].image_width_ = v(n)
        /\ sys.cameras_[1].rotation_matrix_ = Identity3
        /\ sys.cameras_[1].tx_ = 0 /\ sys.cameras_[1].ty_ = 0 /\ sys.cameras_[1].tz_ = 0
        /\ sys.cameras_[2].tx_ = v(n - 4)
        /\ sys.cameras_[2].ty_ = v(n - 3)
        /\ sys.cameras_[2].tz_ = v(n - 2)
        /\ sys.cameras_[2].rotation_matrix_ =
             IF n = 24
             THEN set_rotation_matrix(Camera_Info, v(17), v(18), v(19)).rotation_matrix_
             ELSE << <<v(17), v(18), v(19)>>, <<v(20), v(21), v(22)>>,
                     <<v(23), v(24), v(25)>> >>

C13_Witness ==
  /\ C13_Applies
  /\ Len(sys.cameras_) = 2
  /\ sys.cameras_[2].rotation_matrix_ # Identity3
  /\ sys.cameras_[2].tx_ = 10 /\ sys.cameras_[2].tz_ = 7
  /\ sys.cameras_[1].tx_ = 0

(***************************************************************************)
(* C14.  As claimed: a legacy .txt file fails to load if the token         *)
(* TRANSFORM appears anywhere in it, also as a later token of a line.      *)
(***************************************************************************)
C14_Applies ==
  /\ load.called
  /\ PlainTextFile(load.file)
  /\ Extension(load.file.cal_file) = txt
  /\ find(load.file.cal_file, xml) = npos

TransformCustomError ==
  "custom transforms are no longer supported in the txt calibration file format"

C14_TransformAnywhereRejected ==
  (/\ C14_Applies
   /\ \E k \in 1..Len(load.file.lines) : \E t \in 1..Len(load.file.lines[k]) :
        load.file.lines[k][t] = "TRANSFORM")
  => ~load.ok

(***************************************************************************)
(* C14, amended.  A legacy .txt file fails to load, with the error that    *)
(* custom transforms are no longer supported, exactly when TRANSFORM is    *)
(* the first token of one of its lines, wherever that line is in the file. *)
(***************************************************************************)
C14_TransformLineRejected ==
  C14_Applies =>
    LET lines == load.file.lines
        first == \E k \in 1..Len(lines) : Len(lines[k]) > 0 /\ lines[k][1] = "TRANSFORM"
    IN  /\ first => (~load.ok /\ load.err = TransformCustomError)
        /\ load.err = TransformCustomError => first

C14_Witness ==
  /\ C14_Applies
  /\ Len(load.file.lines) = 24
  /\ load.file.lines[24] = <<"TRANSFORM">>
  /\ load.err = TransformCustomError

(***************************************************************************)
(* C15.  After a successful load the ids of the cameras in the list are    *)
(* pairwise distinct, and a canonical camera group without CAMERA_ID has   *)
(* given its camera the id "CAMERA <index>", index its place in the list.  *)
(***************************************************************************)
C15_IdsDistinct ==
  (load.called /\ load.ok) =>
    /\ \A i, j \in 1..Len(sys.cameras_) :
         i # j => sys.cameras_[i].id_ # sys.cameras_[j].id_
    /\ (LoadedIntoEmpty /\ CanonicalFile(load.file)) =>
         \A i \in 1..Len(sys.cameras_) :
           ~isParameter(GroupAt(load.file.sys_params, i - 1).CAMERA_ID)
             => sys.cameras_[i].id_ = "CAMERA " \o ToString(i - 1)

(***************************************************************************)
(* C16.  A canonical load fails when system_type_3D is missing, or when a  *)
(* camera group the enumeration reaches lacks IMAGE_HEIGHT_WIDTH or        *)
(* LENS_DISTORTION_MODEL; a group with these two entries and no other      *)
(* loads without error.                                                    *)
(***************************************************************************)
C16_RequiredFields ==
  (load.called /\ CanonicalFile(load.file)) =>
    LET params == load.file.sys_params
    IN  /\ ~isParameter(params.system_type_3D) => ~load.ok
        /\ (\E i \in GroupIndexes(params) :
              /\ i < FirstMissingGroup(params)
              /\ \/ ~isParameter(GroupAt(params, i).IMAGE_HEIGHT_WIDTH)
                 \/ ~isParameter(GroupAt(params, i).LENS_DISTORTION_MODEL))
           => ~load.ok
        /\ (/\ isParameter(params.system_type_3D)
            /\ GroupIndexes(params) = {0}
            /\ GroupAt(params, 0) = MinimalGroup) => load.ok

(***************************************************************************)
(* C17.  write_calibration_file fails whenever the system type is          *)
(* UNKNOWN_SYSTEM, and then the output file has not been created, cleared  *)
(* or written; with any other system type it does not fail on that test.   *)
(***************************************************************************)
UnknownTypeError == "write_calibration_file() called for unknown system type"

C17_UnknownTypeRejectedFirst ==
  out1 # <<>> =>
    IF out1[1].pre.sys_type_ = "UNKNOWN_SYSTEM"
    THEN ~out1[1].ok /\ out1[1].err = UnknownTypeError /\ out1[1].file = <<>>
    ELSE out1[1].err # UnknownTypeError /\ out1[1].ok

C17_Witness ==
  /\ out1 # <<>>
  /\ out1[1].pre.sys_type_ = "UNKNOWN_SYSTEM"
  /\ ~out1[1].ok
  /\ out1[1].file = <<>>

(***************************************************************************)
(* C18.  A write_calibration_file call leaves the Camera_System as it was  *)
(* (system type, cameras, user transform flags and values), and a write    *)
(* that follows a write leaves the same file.                              *)
(***************************************************************************)
C18_WriteLeavesSystem ==
  [][WriteCalibrationFile =>
       /\ sys' = sys
       /\ out1 # <<>> => out1'[1].file = out1[1].file]_vars

C18_Witness ==
  /\ out1 # <<>>
  /\ out1[1].ok
  /\ sys = out1[1].pre
  /\ sys.has_6_transform_
  /\ Len(sys.cameras_) > 0

(***************************************************************************)
(* C19.  In a written file the group of each camera has an intrinsic, TX,  *)
(* TY, TZ or PIXEL_DEPTH entry exactly when the value is non-zero, a LENS  *)
(* or COMMENTS entry exactly when the string is non-empty, and always      *)
(* CAMERA_ID, LENS_DISTORTION_MODEL and a rotation_3x3_matrix group with   *)
(* ROW 0, ROW 1, ROW 2, never an Euler angle; the file has a user          *)
(* 6-parameter or 4x4 transform exactly when the flag of it is set.        *)
(***************************************************************************)
C19_WriterEmission ==
  (out1 # <<>> /\ out1[1].ok) =>
    LET self == out1[1].pre
        p == out1[1].file[1].sys_params
    IN  /\ \A i \in 1..Len(self.cameras_) :
             LET cam == self.cameras_[i]
                 g == p.cameras[[idx |-> i - 1, nl |-> FALSE]]
             IN  /\ \A k \in 1..MAX_CAM_INTRINSIC_PARAM :
                      (k \in DOMAIN g.intrinsics) <=> (cam.intrinsics_[k] # 0)
                 /\ (g.TX # <<>>) <=> (cam.tx_ # 0)
                 /\ (g.TY # <<>>) <=> (cam.ty_ # 0)
                 /\ (g.TZ # <<>>) <=> (cam.tz_ # 0)
                 /\ (g.PIXEL_DEPTH # <<>>) <=> (cam.pixel_depth_ # 0)
                 /\ (g.LENS # <<>>) <=> (cam.lens_ # "")
                 /\ (g.COMMENTS # <<>>) <=> (cam.comments_ # "")
                 /\ g.CAMERA_ID = <<cam.id_>>
                 /\ g.LENS_DISTORTION_MODEL = <<cam.lens_distortion_model_>>
                 /\ g.rotation_3x3_matrix # <<>>
                 /\ DOMAIN g.rotation_3x3_matrix[1] = 0..2
                 /\ g.ALPHA = <<>> /\ g.BETA = <<>> /\ g.GAMMA = <<>>
        /\ (p.user_6_param_transform # <<>>) <=> self.has_6_transform_
        /\ (p.user_4x4_param_transform # <<>>) <=> self.has_4x4_transform_

C19_Witness ==
  /\ out1 # <<>>
  /\ out1[1].ok
  /\ Len(out1[1].pre.cameras_) > 0
  /\ out1[1].pre.cameras_[1].tx_ = 0
  /\ out1[1].pre.cameras_[1].tz_ # 0
  /\ out1[1].pre.cameras_[1].lens_ # ""
  /\ out1[1].file[1].sys_params.cameras[[idx |-> 0, nl |-> FALSE]].TX = <<>>

(***************************************************************************)
(* C20.  camera_to_camera_projection fails, with no stage of the optical   *)
(* model called and no output array written, whenever: params is not of    *)
(* length 3; the source or the target id is not below the camera count;    *)
(* img_source_y, img_target_x or img_target_y differs in length from       *)
(* img_source_x (N); derivatives are requested (img_target_dx is not       *)
(* empty) and the number of its rows is not 3 without, or not 6 with,      *)
(* rigid body parameters, or img_target_dy has another number of rows, or  *)
(* a row of either is not of length N; or rigid_body_params is non-empty   *)
(* and not of length 6.                                                    *)
(***************************************************************************)
PreconditionViolated(self, a) ==
  LET N == a.img_source_x
      requested == Len(a.img_target_dx) > 0
  IN  \/ a.params # 3
      \/ a.source_id >= Len(self.cameras_)
      \/ a.target_id >= Len(self.cameras_)
      \/ a.img_source_y # N
      \/ a.img_target_x # N
      \/ a.img_target_y # N
      \/ requested /\ Len(a.rigid_body_params) = 0 /\ Len(a.img_target_dx) # 3
      \/ requested /\ Len(a.rigid_body_params) > 0 /\ Len(a.img_target_dx) # 6
      \/ requested /\ Len(a.img_target_dy) # Len(a.img_target_dx)
      \/ requested /\ \E i \in 1..Len(a.img_target_dx) : a.img_target_dx[i] # N
      \/ requested /\ \E i \in 1..Len(a.img_target_dy) : a.img_target_dy[i] # N
      \/ Len(a.rigid_body_params) > 0 /\ Len(a.rigid_body_params) # 6

C21_ConcurrentCallsIsolated ==
  \A t \in DOMAIN threads :
    LET c == threads[t].call
        alone == rot_trans_3D(Camera_System, c)
        own == RotTransCoefficients(c.params)
    IN  /\ threads[t].pc = "returned" => alone.ok /\ threads[t].arrays = alone.arrays
        /\ threads[t].pc = "threw" => ~alone.ok
        /\ threads[t].pc = "apply" =>
             /\ sys.rot_trans_3D_x_ = own.x
             /\ sys.rot_trans_3D_y_ = own.y
             /\ sys.rot_trans_3D_z_ = own.z

(***************************************************************************)
(* C22.  A camera_to_camera_projection call with rigid body parameters and *)
(* a derivative request that passes the argument tests returns, and the 6  *)
(* rows of its derivative arrays are, in order, the partials with respect  *)
(* to the 3 optical parameters followed by partials with respect to 3      *)
(* rigid body parameters.                                                  *)
(***************************************************************************)
RigidDerivativeRequest(a) ==
  /\ Len(a.rigid_body_params) = 6
  /\ Len(a.img_target_dx) = 6

C22_OpticalThenRigidColumns ==
  \A k \in 1..Len(proj) :
    (/\ RigidDerivativeRequest(proj[k].args)
     /\ ~PreconditionViolated(proj[k].pre, proj[k].args)) =>
       /\ proj[k].ok
       /\ Len(proj[k].rows) = 6
       /\ SubSeq(proj[k].rows, 1, 3) = ShapeFunctionRows
       /\ \A j \in 4..6 : \E i \in 1..6 : proj[k].rows[j] = RigidBodyRows[i]

(***************************************************************************)
(* C23.  For the same ids, source points, params and rigid_body_params, a  *)
(* camera_to_camera_projection call with a derivative request that passes  *)
(* the argument tests and the call without derivative arrays call the same *)
(* stages in the same order, rot_trans_3D between cam_to_world and         *)
(* world_to_cam exactly when there are rigid body parameters, and end the  *)
(* same way: both write the target positions or both throw at the same     *)
(* stage.                                                                  *)
(***************************************************************************)
WithoutDerivatives(a) == [a EXCEPT !.img_target_dx = <<>>, !.img_target_dy = <<>>]

PositionalStages(a) ==
  <<"image_to_sensor", "sensor_to_cam", "cam_to_world">>
  \o (IF Len(a.rigid_body_params) > 0 THEN <<"rot_trans_3D">> ELSE <<>>)
  \o <<"world_to_cam", "cam_to_sensor", "sensor_to_image">>

RotTransValid(c) ==
  LET N == Len(c.source_x)
  IN  /\ Len(c.params) = 6
      /\ Len(c.source_y) = N /\ Len(c.source_z) = N
      /\ Len(c.target_x) = N /\ Len(c.target_y) = N /\ Len(c.target_z) = N
      /\ N # 0
      /\ Len(c.target_dx) > 0 =>
           \A rows \in {c.target_dx, c.target_dy, c.target_dz} :
             Len(rows) = 6 /\ \A j \in 1..6 : Len(rows[j]) = N

C24_SucceedsExactlyWhenValid ==
  \A k \in 1..Len(transforms) :
    transforms[k].ok <=> RotTransValid(transforms[k].call)

(***************************************************************************)
(* C25.  For every point i of a valid rot_trans_3D call the target is      *)
(* R.source + T, where T = (params[3], params[4], params[5]) and R is the  *)
(* closed form of Rz(gamma).Ry(beta).Rx(alpha) for alpha = params[0],      *)
(* beta = params[1], gamma = params[2].                                    *)
(***************************************************************************)
ClosedForm(ca, sa, cb, sb, cg, sg) ==
  << <<cb * cg, sa * sb * cg - ca * sg, ca * sb * cg + sa * sg>>,
     <<cb * sg, sa * sb * sg + ca * cg, ca * sb * sg - sa * cg>>,
     <<0 - sb, sa * cb, ca * cb>> >>

ClosedFormR(alpha, beta, gamma) ==
  ClosedForm(cos(alpha), sin(alpha), cos(beta), sin(beta), cos(gamma), sin(gamma))

RotatedTranslated(c, i) ==
  LET R == ClosedFormR(c.params[1], c.params[2], c.params[3])
      T == <<c.params[4], c.params[5], c.params[6]>>
  IN  [r \in 1..3 |->
         R[r][1] * c.source_x[i] + R[r][2] * c.source_y[i]
           + R[r][3] * c.source_z[i] + T[r]]

C25_TargetIsRotatedTranslated ==
  \A k \in 1..Len(transforms) :
    LET c == transforms[k].call
        out == transforms[k].arrays
    IN  RotTransValid(c) =>
          /\ transforms[k].ok
          /\ \A i \in 1..Len(c.source_x) :
               <<out.target_x[i], out.target_y[i], out.target_z[i]>>
                 = RotatedTranslated(c, i)

(***************************************************************************)
(* C26.  For every point of a valid rot_trans_3D call with a derivative    *)
(* request: the partials with respect to the translations are the          *)
(* standard basis vectors (target_dx[3] = 1, target_dy[4] = 1,             *)
(* target_dz[5] = 1, the six other translation entries 0), and the         *)
(* partial with respect to each angle is the element-wise derivative of    *)
(* the closed form of R with respect to that angle applied to the source   *)
(* point, without a translation term.                                      *)
(***************************************************************************)
\* every entry of the closed form is a sum of products with at most one
\* factor cos or sin of each angle: its derivative with respect to an angle
\* replaces (cos, sin) of that angle by (-sin, cos) and drops the products
\* without such a factor, which are what remains with (cos, sin) = (0, 0)
MatrixMinus(A, B) == [r \in 1..3 |-> [k \in 1..3 |-> A[r][k] - B[r][k]]]

DClosedFormR(alpha, beta, gamma, angle) ==
  LET ca == cos(alpha) sa == sin(alpha)
      cb == cos(beta)  sb == sin(beta)
      cg == cos(gamma) sg == sin(gamma)
  IN  CASE angle = ANGLE_X ->
             MatrixMinus(ClosedForm(0 - sa, ca, cb, sb, cg, sg),
                         ClosedForm(0, 0, cb, sb, cg, sg))
        [] angle = ANGLE_Y ->
             MatrixMinus(ClosedForm(ca, sa, 0 - sb, cb, cg, sg),
                         ClosedForm(ca, sa, 0, 0, cg, sg))
        [] angle = ANGLE_Z ->
             MatrixMinus(ClosedForm(ca, sa, cb, sb, 0 - sg, cg),
                         ClosedForm(ca, sa, cb, sb, 0, 0))

AnglePartial(c, i, angle) ==
  LET D == DClosedFormR(c.params[1], c.params[2], c.params[3], angle)
  IN  [r \in 1..3 |->
         D[r][1] * c.source_x[i] + D[r][2] * c.source_y[i] + D[r][3] * c.source_z[i]]

C26_PartialsOfRotTrans ==
  \A k \in 1..Len(transforms) :
    LET c == transforms[k].call
        out == transforms[k].arrays
    IN  (RotTransValid(c) /\ Len(c.target_dx) > 0) =>
          /\ transforms[k].ok
          /\ \A i \in 1..Len(c.source_x) :
               /\ \A angle \in {ANGLE_X, ANGLE_Y, ANGLE_Z} :
                    <<out.target_dx[angle][i], out.target_dy[angle][i],
                      out.target_dz[angle][i]>> = AnglePartial(c, i, angle)
               /\ out.target_dz[ANGLE_Z][i] = 0
               /\ \A t \in {TRANSLATION_X, TRANSLATION_Y, TRANSLATION_Z} :
                    /\ out.target_dx[t][i] = (IF t = TRANSLATION_X THEN 1 ELSE 0)
                    /\ out.target_dy[t][i] = (IF t = TRANSLATION_Y THEN 1 ELSE 0)
                    /\ out.target_dz[t][i] = (IF t = TRANSLATION_Z THEN 1 ELSE 0)

(***************************************************************************)
(* C27.  For a Camera_System with a known system type and valid cameras,   *)
(* the file write_calibration_file produces is accepted by                 *)
(* read_calibration_file on a fresh Camera_System and yields the same      *)
(* system type, the same number of cameras in the same order, for each     *)
(* camera the same id, image height and width, distortion model and        *)
(* rotation matrix, and the same user transform flags.                     *)
(***************************************************************************)
WrittenAndReadBack ==
  /\ out1 # <<>>
  /\ fresh # <<>>
  /\ out1[1].pre.sys_type_ # "UNKNOWN_SYSTEM"
  /\ \A i \in 1..Len(out1[1].pre.cameras_) : CameraIsValid(out1[1].pre.cameras_[i])

C27_WrittenFileReadsBack ==
  WrittenAndReadBack =>
    LET before == out1[1].pre
        after == fresh[1].sys
    IN  /\ fresh[1].ok
        /\ after.sys_type_ = before.sys_type_
        /\ Len(after.cameras_) = Len(before.cameras_)
        /\ \A i \in 1..Len(before.cameras_) :
             /\ i <= Len(after.cameras_)
             /\ after.cameras_[i].id_ = before.cameras_[i].id_
             /\ after.cameras_[i].image_height_ = before.cameras_[i].image_height_
             /\ after.cameras_[i].image_width_ = before.cameras_[i].image_width_
             /\ after.cameras_[i].lens_distortion_model_
                  = before.cameras_[i].lens_distortion_model_
             /\ after.cameras_[i].rotation_matrix_ = before.cameras_[i].rotation_matrix_
        /\ after.has_6_transform_ = before.has_6_transform_
        /\ after.has_4x4_transform_ = before.has_4x4_transform_

(***************************************************************************)
(* C28.  In every state reached by read_calibration_file calls on one      *)
(* Camera_System, a second load on a populated system included, the number *)
(* of cameras does not exceed max_num_cameras_allowed_, and after a        *)
(* successful load it is the number of cameras the loaded file describes,  *)
(* that is the number the file yields on an empty Camera_System: a load    *)
(* replaces the camera list.                                               *)
(***************************************************************************)
CamerasDescribed(file) == Len(read_calibration_file(Camera_System, file).sys.cameras_)

C28_LoadReplacesCameras ==
  /\ Len(sys.cameras_) <= max_num_cameras_allowed_
  /\ (load.called /\ load.ok) => Len(sys.cameras_) = CamerasDescribed(load.file)

(***************************************************************************)
(* C29.  With source and target ids below the camera count, 3 params,      *)
(* N >= 1 points in arrays of equal length and 6 rigid body parameters,    *)
(* camera_to_camera_projection completes without error, without            *)
(* derivative arrays and with derivative arrays of 6 rows of length N, and *)
(* calls rot_trans_3D after cam_to_world of the source camera and before   *)
(* world_to_cam of the target camera.                                      *)
(***************************************************************************)
RigidCallWithPoints(self, a) ==
  /\ a.source_id < Len(self.cameras_)
  /\ a.target_id < Len(self.cameras_)
  /\ a.params = 3
  /\ a.img_source_x >= 1
  /\ a.img_source_y = a.img_source_x
  /\ a.img_target_x = a.img_source_x
  /\ a.img_target_y = a.img_source_x
  /\ Len(a.rigid_body_params) = 6
  /\ \/ a.img_target_dx = <<>> /\ a.img_target_dy = <<>>
     \/ /\ a.img_target_dx = SizeRows(6, a.img_source_x)
        /\ a.img_target_dy = SizeRows(6, a.img_source_x)

C29_RigidProjectionCompletes ==
  \A k \in 1..Len(proj) :
    RigidCallWithPoints(proj[k].pre, proj[k].args) =>
      /\ proj[k].ok
      /\ proj[k].written
      /\ proj[k].stages =
           <<"image_to_sensor", "sensor_to_cam", "cam_to_world", "rot_trans_3D",
             "world_to_cam", "cam_to_sensor", "sensor_to_image">>

(***************************************************************************)
(* C30.  A legacy text file that loads is consumed by position: values 1   *)
(* to 8 are the intrinsics CX, CY, FX, FY, FS, K1, K2, K3 of camera 0,     *)
(* values 9 to 16 those of camera 1 in the same order; then come the       *)
(* rotation values of camera 1 (alpha, beta, gamma among 24 values,        *)
(* R11 .. R33 row by row among 30) followed by TX, TY, TZ; the last two    *)
(* values are the image height, then the image width; and the position of  *)
(* every rotation and translation value, counted from the first of them,   *)
(* is below the size total - 18 of the buffer that takes them.             *)
(***************************************************************************)
TxtIntrinsicOrder == <<"CX", "CY", "FX", "FY", "FS", "K1", "K2", "K3">>

IntrinsicIndex(name) == CHOOSE k \in 1..MAX_CAM_INTRINSIC_PARAM : IntrinsicName[k] = name

C30_Applies ==
  /\ LoadedIntoEmpty
  /\ PlainTextFile(load.file)
  /\ find(load.file.cal_file, xml) = npos
  /\ find(load.file.cal_file, txt) # npos
  /\ load.ok
  /\ Len(sys.cameras_) = 2

C30_TxtValuesByPosition ==
  C30_Applies =>
    LET lines == load.file.lines
        total == Len(ValueLinesOf(lines))
        v(i) == ValueOf(lines, i)
        cam1 == sys.cameras_[2]
    IN  /\ total \in {24, 30}
        /\ \A cam \in 0..1 : \A j \in 1..8 :
             sys.cameras_[cam + 1].intrinsics_[IntrinsicIndex(TxtIntrinsicOrder[j])]
               = v(8 * cam + j)
        /\ IF total = 24
           THEN cam1.rotation_matrix_
                  = set_rotation_matrix(Camera_Info, v(17), v(18), v(19)).rotation_matrix_
           ELSE \A r \in 1..3 : \A k \in 1..3 :
                  cam1.rotation_matrix_[r][k] = v(16 + 3 * (r - 1) + k)
        /\ <<cam1.tx_, cam1.ty_, cam1.tz_>> = <<v(total - 4), v(total - 3), v(total - 2)>>
        /\ \A cam \in 1..2 :
             /\ sys.cameras_[cam].image_height_ = v(total - 1)
             /\ sys.cameras_[cam].image_width_ = v(total)
        /\ \A current_line \in 16..(total - 3) :
             /\ current_line - 16 >= 0
             /\ current_line - 16 < Len(TxtExtValues(lines, total))
        /\ Len(TxtExtValues(lines, total)) = total - 18

C30_Witness ==
  /\ C30_Applies
  /\ Len(ValueLinesOf(load.file.lines)) = 30
  /\ sys.cameras_[1].intrinsics_[IntrinsicIndex("CX")] = 1
  /\ sys.cameras_[1].intrinsics_[IntrinsicIndex("K3")] = 500
  /\ sys.cameras_[2].intrinsics_[IntrinsicIndex("CX")] = 500
  /\ sys.cameras_[2].intrinsics_[IntrinsicIndex("K3")] = 1
  /\ sys.cameras_[2].rotation_matrix_[1][2] = 0 - 1
  /\ sys.cameras_[2].ty_ = 0 - 5
  /\ sys.cameras_[2].image_height_ # sys.cameras_[2].image_width_

=============================================================================
